---- MODULE Spec2Model ----
(***************************************************************************)
(* Model of modules/text_renderer/freetype/platform_fonts.c: the font      *)
(* registry (families and their font variants), the fallback-list caches,  *)
(* the face cache, the family-spec parser, the best-font scorer, the       *)
(* fallback search and the tiered resolution.                              *)
(*                                                                         *)
(* Strings are sequences of one-character strings, pointers are indices    *)
(* into arenas (0 is NULL), and every C function is an operator that takes *)
(* the resolver state S and returns the new state with its result.         *)
(***************************************************************************)
EXTENDS Integers, Sequences, FiniteSets, TLC

VARIABLES
    fonts,               \* arena of vlc_font_t, a font pointer is an index
    fams,                \* arena of vlc_family_t, a family pointer is an index
    p_families,          \* p_sys->p_families, head of the registry list
    family_map,          \* p_sys->family_map   (lower-cased name -> family)
    fallback_map,        \* p_sys->fallback_map (list identifier -> forest head)
    face_map,            \* p_sys->face_map     (composite key -> face handle)
    i_fallback_counter,  \* p_sys->i_fallback_counter
    i_scale,             \* p_sys->i_scale, the global size-scale percentage
    psz_fontfile,        \* p_sys->psz_fontfile, the configured default font file
    pf_get_fallbacks,    \* whether the platform has a system fallback enumeration
    ft_faces,            \* the font engine: live face handle -> (source, index)
    issued,              \* history: the (key, handle) pairs LoadFace returned
    phase,               \* "new" until the platform has registered its fonts
    ret                  \* the last call: operation, inputs, outputs, probe log

vars == <<fonts, fams, p_families, family_map, fallback_map, face_map,
          i_fallback_counter, i_scale, psz_fontfile, pf_get_fallbacks,
          ft_faces, issued, phase, ret>>

NULL == 0

\* A char* that is NULL
NullStr == <<"(null)">>

(***************************************************************************)
(* Strings.                                                                *)
(***************************************************************************)
\* tolower() on one character (the alphabet of the model's names)
LowerChar(c) ==
    CASE c = "A" -> "a"
      [] c = "B" -> "b"
      [] c = "S" -> "s"
      [] c = "M" -> "m"
      [] OTHER   -> c

ToLower(psz_src) == [i \in 1..Len(psz_src) |-> LowerChar(psz_src[i])]

\* strcasecmp() == 0
StrCaseEq(a, b) == ToLower(a) = ToLower(b)

Digits == <<"0", "1", "2", "3", "4", "5", "6", "7", "8", "9">>

RECURSIVE UToA(_)
UToA(n) == IF n < 10 THEN <<Digits[n + 1]>>
           ELSE UToA(n \div 10) \o <<Digits[(n % 10) + 1]>>

\* printf's %d
IToA(n) == IF n < 0 THEN <<"-">> \o UToA(-n) ELSE UToA(n)

DigitVal(c) == CHOOSE d \in 0..9 : Digits[d + 1] = c

IsDigit(c) == \E d \in 1..10 : Digits[d] = c

RECURSIVE AtoiDigits(_, _)
AtoiDigits(s, acc) ==
    IF s = <<>> \/ ~IsDigit(Head(s)) THEN acc
    ELSE AtoiDigits(Tail(s), acc * 10 + DigitVal(Head(s)))

\* atoi(): optional sign, then the leading run of digits
Atoi(s) ==
    IF s # <<>> /\ Head(s) = "-" THEN -AtoiDigits(Tail(s), 0)
    ELSE IF s # <<>> /\ Head(s) = "+" THEN AtoiDigits(Tail(s), 0)
    ELSE AtoiDigits(s, 0)

\* C integer division, truncating toward zero
CDiv(a, b) == IF a >= 0 THEN a \div b ELSE -((-a) \div b)

(***************************************************************************)
(* vlc_dictionary_t: a list of (key, value) entries, insertion prepends,   *)
(* lookup returns the value of the first entry with the key.               *)
(***************************************************************************)
RECURSIVE vlc_dictionary_value_for_key(_, _)
vlc_dictionary_value_for_key(p_dict, psz_key) ==
    IF p_dict = <<>> THEN NULL
    ELSE IF Head(p_dict)[1] = psz_key THEN Head(p_dict)[2]
    ELSE vlc_dictionary_value_for_key(Tail(p_dict), psz_key)

vlc_dictionary_insert(p_dict, psz_key, p_value) ==
    <<<<psz_key, p_value>>>> \o p_dict

DictKeys(p_dict) == {p_dict[i][1] : i \in 1..Len(p_dict)}

DictValues(p_dict) == {p_dict[i][2] : i \in 1..Len(p_dict)}

(***************************************************************************)
(* Configuration and the font engine (the world outside the resolver).     *)
(***************************************************************************)
STYLE_DEFAULT_FONT_SIZE == 20

\* fmt_out.video.i_height
VideoHeight == 200

\* p_sys->i_font_attachments; attachment i is the memory font ":/i"
i_font_attachments == 1

\* The codepoint of the requests
CP == 1

FileF == <<"f">>            \* a font file whose face has the glyph
FileG == <<"g">>            \* a font file whose face lacks the glyph
FileH == <<"/", "s", "/", "h">> \* the installed default font: has the glyph
FileM == <<"/", "s", "/", "m">> \* the installed monospace font: lacks it
Attach0 == <<":", "/", "0">> \* attachment 0: has the glyph
Attach1 == <<":", "/", "1">> \* no such attachment

\* The faces of a source: one glyph set per face index
FontWorld(src) ==
    CASE src = FileF   -> <<{CP}, {}>>
      [] src = FileG   -> <<{}>>
      [] src = FileH   -> <<{CP}>>
      [] src = FileM   -> <<{}>>
      [] src = Attach0 -> <<{CP}>>
      [] OTHER         -> <<>>

\* p_sys->p_default_style: the style GetFace loads with
p_default_style == [i_font_size |-> 0, f_font_relsize |-> 5, i_style_flags |-> {}]

\* What the font engine answers to the opens of one call, per source
FT_Outcomes == {"ok", "open_err", "charmap_err", "size_err"}

FTOutcome(S, src, i_idx) ==
    IF i_idx + 1 > Len(FontWorld(src)) THEN "open_err"
    ELSE IF src \in DOMAIN S.ft THEN S.ft[src]
    ELSE "ok"

\* FT_Get_Char_Index() # 0
FT_Get_Char_Index(S, p_face, codepoint) ==
    codepoint \in FontWorld(S.ft_faces[p_face].src)[S.ft_faces[p_face].idx + 1]

\* The handle the engine gives to the next face it creates
FreshFace(S) == CHOOSE h \in 1..(Cardinality(DOMAIN S.ft_faces) + 1) :
                    h \notin DOMAIN S.ft_faces

\* F of the value v, which is computed once (a C local that is assigned once)
With(v, F(_)) == CHOOSE r \in {F(x) : x \in {v}} : TRUE

Log(S, e) == [S EXCEPT !.log = Append(@, e)]

(***************************************************************************)
(* Face loading.                                                           *)
(***************************************************************************)
ConvertToLiveSize(S, p_style) ==
    LET base == IF p_style.i_font_size # 0 THEN p_style.i_font_size
                ELSE IF p_style.f_font_relsize # 0
                     THEN CDiv(VideoHeight * p_style.f_font_relsize, 100)
                     ELSE STYLE_DEFAULT_FONT_SIZE
    IN IF S.i_scale # 100 THEN CDiv(base * S.i_scale, 100) ELSE base

FontWidth(i_font_size, p_style) ==
    IF "HALFWIDTH" \in p_style.i_style_flags THEN CDiv(i_font_size, 2)
    ELSE IF "DOUBLEWIDTH" \in p_style.i_style_flags THEN i_font_size * 2
    ELSE i_font_size

\* The key without the pixel width
FaceKey_NoWidth(psz_file, i_idx, i_font_size, i_font_width) ==
    LET sep == <<" ", "-", " ">>
    IN psz_file \o sep \o IToA(i_idx) \o sep \o IToA(i_font_size)

\* asprintf( "%s - %d - %d - %d" )
FaceKey(psz_file, i_idx, i_font_size, i_font_width) ==
    LET sep == <<" ", "-", " ">>
    IN psz_file \o sep \o IToA(i_idx) \o sep \o IToA(i_font_size)
                    \o sep \o IToA(i_font_width)

IsAttachment(psz_file) ==
    Len(psz_file) >= 2 /\ psz_file[1] = ":" /\ psz_file[2] = "/"

\* The open itself (lines 73-107): [S, face], face = NULL when nothing opened.
\* The log entry of an open tells whether the key was in the cache at that time.
OpenFace(S, psz_file, i_idx, psz_key) ==
    LET i_attach == Atoi(SubSeq(psz_file, 3, Len(psz_file)))
    IN IF IsAttachment(psz_file)
          /\ (i_attach < 0 \/ i_attach >= i_font_attachments)
       THEN [S |-> S, face |-> NULL]
       ELSE LET S1 == Log(S, <<"open", psz_file, i_idx, psz_key,
                               vlc_dictionary_value_for_key(S.face_map, psz_key) # NULL>>)
                h  == FreshFace(S)
            IN IF FTOutcome(S, psz_file, i_idx) = "open_err"
               THEN [S |-> S1, face |-> NULL]
               ELSE [S |-> [S1 EXCEPT !.ft_faces =
                              (h :> [src |-> psz_file, idx |-> i_idx]) @@ @],
                     face |-> h]

FT_Done_Face(S, p_face) ==
    Log([S EXCEPT !.ft_faces = [h \in (DOMAIN @) \ {p_face} |-> @[h]]],
        <<"done", p_face>>)

\* History: the (key, handle) pairs LoadFace has returned
Issue(S, psz_key, p_face) == [S EXCEPT !.issued = @ \cup {<<psz_key, p_face>>}]

\* LoadFace without the cache lookup: every call opens the source
LoadFace_Reopen(S, psz_file, i_idx, p_style) ==
    With(ConvertToLiveSize(S, p_style), LAMBDA i_font_size :
    With(FaceKey(psz_file, i_idx, i_font_size, FontWidth(i_font_size, p_style)),
         LAMBDA psz_key :
    With(OpenFace(S, psz_file, i_idx, psz_key), LAMBDA o :
        IF o.face = NULL THEN o
        ELSE IF FTOutcome(S, psz_file, i_idx) \in {"charmap_err", "size_err"}
             THEN [S |-> FT_Done_Face(o.S, o.face), face |-> NULL]
        ELSE [S |-> Issue([o.S EXCEPT !.face_map =
                               vlc_dictionary_insert(@, psz_key, o.face)],
                          psz_key, o.face),
              face |-> o.face])))

\* LoadFace with the insertion before the charmap and size checks: a face
\* that is discarded stays in the cache
LoadFace_CacheFailure(S, psz_file, i_idx, p_style) ==
    With(ConvertToLiveSize(S, p_style), LAMBDA i_font_size :
    With(FaceKey(psz_file, i_idx, i_font_size, FontWidth(i_font_size, p_style)),
         LAMBDA psz_key :
    With(vlc_dictionary_value_for_key(S.face_map, psz_key), LAMBDA cached :
        IF cached # NULL THEN [S |-> Issue(S, psz_key, cached), face |-> cached]
        ELSE With(OpenFace(S, psz_file, i_idx, psz_key), LAMBDA o :
            IF o.face = NULL THEN o
            ELSE IF FTOutcome(S, psz_file, i_idx) \in {"charmap_err", "size_err"}
                 THEN [S |-> [FT_Done_Face(o.S, o.face) EXCEPT !.face_map =
                                 vlc_dictionary_insert(@, psz_key, o.face)],
                       face |-> NULL]
            ELSE [S |-> Issue([o.S EXCEPT !.face_map =
                                   vlc_dictionary_insert(@, psz_key, o.face)],
                              psz_key, o.face),
                  face |-> o.face]))))

LoadFace(S, psz_file, i_idx, p_style) ==
    With(ConvertToLiveSize(S, p_style), LAMBDA i_font_size :
    With(FaceKey(psz_file, i_idx, i_font_size, FontWidth(i_font_size, p_style)),
         LAMBDA psz_key :
    With(vlc_dictionary_value_for_key(S.face_map, psz_key), LAMBDA cached :
        IF cached # NULL THEN [S |-> Issue(S, psz_key, cached), face |-> cached]
        ELSE With(OpenFace(S, psz_file, i_idx, psz_key), LAMBDA o :
            IF o.face = NULL THEN o
            ELSE IF FTOutcome(S, psz_file, i_idx) \in {"charmap_err", "size_err"}
                 THEN [S |-> FT_Done_Face(o.S, o.face), face |-> NULL]
            ELSE [S |-> Issue([o.S EXCEPT !.face_map =
                                   vlc_dictionary_insert(@, psz_key, o.face)],
                              psz_key, o.face),
                  face |-> o.face]))))

GetFace(S, p_font, codepoint) ==
    With(IF S.fonts[p_font].p_face = NULL
         THEN LoadFace(Log(S, <<"GetFace", p_font>>), S.fonts[p_font].psz_fontfile,
                       S.fonts[p_font].i_index, p_default_style)
         ELSE [S |-> Log(S, <<"GetFace", p_font>>), face |-> S.fonts[p_font].p_face],
         LAMBDA l :
        LET S1 == [l.S EXCEPT !.fonts[p_font].p_face = l.face]
        IN IF l.face # NULL /\ FT_Get_Char_Index(S1, l.face, codepoint)
           THEN [S |-> S1, face |-> l.face]
           ELSE [S |-> S1, face |-> NULL])

(***************************************************************************)
(* The best-font scorer.                                                   *)
(***************************************************************************)
\* The scorer with the weights of coverage and bold exchanged
RECURSIVE GetBestFontLoop_BoldFirst(_, _, _, _, _, _, _)
GetBestFontLoop_BoldFirst(S, p_font, b_bold, b_italic, codepoint, p_best_font, i_best_score) ==
    IF p_font = NULL THEN [S |-> S, font |-> p_best_font]
    ELSE With(IF codepoint # 0 THEN GetFace(S, p_font, codepoint)
              ELSE [S |-> S, face |-> NULL], LAMBDA g :
         LET f == S.fonts[p_font]
             i_score == (IF g.face # NULL THEN 100 ELSE 0)
                        + (IF f.b_bold = b_bold THEN 1000 ELSE 0)
                        + (IF f.b_italic = b_italic THEN 10 ELSE 0)
         IN IF i_score > i_best_score
            THEN GetBestFontLoop_BoldFirst(g.S, f.p_next, b_bold, b_italic, codepoint, p_font, i_score)
            ELSE GetBestFontLoop_BoldFirst(g.S, f.p_next, b_bold, b_italic, codepoint,
                    p_best_font, i_best_score))

\* The scorer with >= for >: the last of the best variants wins
RECURSIVE GetBestFontLoop_LastWins(_, _, _, _, _, _, _)
GetBestFontLoop_LastWins(S, p_font, b_bold, b_italic, codepoint, p_best_font, i_best_score) ==
    IF p_font = NULL THEN [S |-> S, font |-> p_best_font]
    ELSE With(IF codepoint # 0 THEN GetFace(S, p_font, codepoint)
              ELSE [S |-> S, face |-> NULL], LAMBDA g :
         LET f == S.fonts[p_font]
             i_score == (IF g.face # NULL THEN 1000 ELSE 0)
                        + (IF f.b_bold = b_bold THEN 100 ELSE 0)
                        + (IF f.b_italic = b_italic THEN 10 ELSE 0)
         IN IF i_score >= i_best_score
            THEN GetBestFontLoop_LastWins(g.S, f.p_next, b_bold, b_italic, codepoint, p_font, i_score)
            ELSE GetBestFontLoop_LastWins(g.S, f.p_next, b_bold, b_italic, codepoint,
                    p_best_font, i_best_score))

RECURSIVE GetBestFontLoop(_, _, _, _, _, _, _)
GetBestFontLoop(S, p_font, b_bold, b_italic, codepoint, p_best_font, i_best_score) ==
    IF p_font = NULL THEN [S |-> S, font |-> p_best_font]
    ELSE With(IF codepoint # 0 THEN GetFace(S, p_font, codepoint)
              ELSE [S |-> S, face |-> NULL], LAMBDA g :
         LET f == S.fonts[p_font]
             i_score == (IF g.face # NULL THEN 1000 ELSE 0)
                        + (IF f.b_bold = b_bold THEN 100 ELSE 0)
                        + (IF f.b_italic = b_italic THEN 10 ELSE 0)
         IN IF i_score > i_best_score
            THEN GetBestFontLoop(g.S, f.p_next, b_bold, b_italic, codepoint, p_font, i_score)
            ELSE GetBestFontLoop(g.S, f.p_next, b_bold, b_italic, codepoint,
                    p_best_font, i_best_score))

\* The scorer without the coverage term
GetBestFont_IgnoreCoverage(S, p_family, b_bold, b_italic, codepoint) ==
    GetBestFontLoop(Log(S, <<"GetBestFont", p_family>>), S.fams[p_family].p_fonts, b_bold, b_italic, 0,
                    S.fams[p_family].p_fonts, 0)

GetBestFont(S, p_family, b_bold, b_italic, codepoint) ==
    GetBestFontLoop(Log(S, <<"GetBestFont", p_family>>), S.fams[p_family].p_fonts, b_bold, b_italic, codepoint,
                    S.fams[p_family].p_fonts, 0)

(***************************************************************************)
(* The registry: families, fonts, and the lists and dictionaries they are  *)
(* linked into.                                                            *)
(***************************************************************************)
FB_LIST_ATTACHMENTS == <<"a", "t", "t", "a", "c", "h", "m", "e", "n", "t", "s">>
FB_LIST_DEFAULT == <<"d", "e", "f", "a", "u", "l", "t">>
FB_NAME == <<"f", "a", "l", "l", "b", "a", "c", "k">>
DEFAULT_FAMILY == <<"S", "e", "r", "i", "f">>
DEFAULT_MONOSPACE_FAMILY == <<"M", "o", "n", "o">>
DEFAULT_FONT_FILE == <<"h">>
DEFAULT_MONOSPACE_FONT_FILE == <<"m">>
SYSTEM_FONT_PATH == <<"/", "s">>
DIR_SEP_CHAR == "/"

\* printf's %04d
Pad4(n) == LET d == IToA(n)
           IN IF n >= 0 /\ Len(d) < 4
              THEN [i \in 1..(4 - Len(d)) |-> "0"] \o d
              ELSE d

RECURSIVE LastFont(_, _)
LastFont(S, p) == IF S.fonts[p].p_next = NULL THEN p ELSE LastFont(S, S.fonts[p].p_next)

RECURSIVE LastFamily(_, _)
LastFamily(S, p) == IF S.fams[p].p_next = NULL THEN p ELSE LastFamily(S, S.fams[p].p_next)

\* AppendFont( &p_parent->p_fonts, p_font )
AppendFont(S, p_parent, p_font) ==
    IF S.fams[p_parent].p_fonts = NULL
    THEN [S EXCEPT !.fams[p_parent].p_fonts = p_font]
    ELSE [S EXCEPT !.fonts[LastFont(S, S.fams[p_parent].p_fonts)].p_next = p_font]

\* AppendFamily( &head, p_family ) on a non-empty list
AppendFamily(S, head, p_family) ==
    [S EXCEPT !.fams[LastFamily(S, head)].p_next = p_family]

\* The list head pp_list points to: p_sys->p_families or the caller's local
ListHead(S, pp_list) ==
    CASE pp_list = "p_families" -> S.p_families
      [] pp_list = "local"      -> S.p_local
      [] OTHER                  -> NULL

SetListHead(S, pp_list, p) ==
    CASE pp_list = "p_families" -> [S EXCEPT !.p_families = p]
      [] pp_list = "local"      -> [S EXCEPT !.p_local = p]
      [] OTHER                  -> S

Dict(S, p_dict) ==
    CASE p_dict = "family_map"   -> S.family_map
      [] p_dict = "fallback_map" -> S.fallback_map
      [] OTHER                   -> <<>>

SetDict(S, p_dict, d) ==
    CASE p_dict = "family_map"   -> [S EXCEPT !.family_map = d]
      [] p_dict = "fallback_map" -> [S EXCEPT !.fallback_map = d]
      [] OTHER                   -> S

\* NewFamily with a counter that is read and not incremented
NewFamily_NoIncrement(S, psz_family, pp_list, p_dict, psz_key) ==
    LET named    == psz_family # NullStr /\ psz_family # <<>>
        oom      == IF S.oom_after = 0 THEN S.oom ELSE "none"
        Sd       == [S EXCEPT !.oom_after = IF @ > 0 THEN @ - 1 ELSE 0]
        S0       == IF named \/ oom = "family" THEN Sd
                    ELSE Sd
        psz_name == IF oom = "name" THEN NullStr
                    ELSE IF named THEN ToLower(psz_family)
                    ELSE FB_NAME \o <<"-">> \o Pad4(S.i_fallback_counter)
        psz_lc   == IF psz_name = NullStr \/ oom = "lc" THEN NullStr
                    ELSE IF psz_key = NullStr THEN psz_name
                    ELSE ToLower(psz_key)
        p_family == Len(S.fams) + 1
    IN IF oom = "family" THEN [S |-> Sd, family |-> NULL]
       ELSE IF psz_name = NullStr \/ psz_lc = NullStr
            THEN [S |-> S0, family |-> NULL]
       ELSE With([S0 EXCEPT !.fams = Append(@, [psz_name |-> psz_name,
                                                p_fonts |-> NULL, p_next |-> NULL,
                                                freed |-> FALSE])], LAMBDA S1 :
            With(IF pp_list = "none" THEN S1
                 ELSE IF ListHead(S1, pp_list) = NULL
                      THEN SetListHead(S1, pp_list, p_family)
                      ELSE AppendFamily(S1, ListHead(S1, pp_list), p_family),
                 LAMBDA S2 :
            With(vlc_dictionary_value_for_key(Dict(S2, p_dict), psz_lc), LAMBDA p_root :
                [S |-> IF p_dict = "none" THEN S2
                       ELSE IF p_root # NULL THEN AppendFamily(S2, p_root, p_family)
                       ELSE SetDict(S2, p_dict,
                                    vlc_dictionary_insert(Dict(S2, p_dict), psz_lc,
                                                          p_family)),
                 family |-> p_family])))

\* NewFamily with the insertion made whether or not the key has a root
NewFamily_AlwaysInsert(S, psz_family, pp_list, p_dict, psz_key) ==
    LET named    == psz_family # NullStr /\ psz_family # <<>>
        oom      == IF S.oom_after = 0 THEN S.oom ELSE "none"
        Sd       == [S EXCEPT !.oom_after = IF @ > 0 THEN @ - 1 ELSE 0]
        S0       == IF named \/ oom = "family" THEN Sd
                    ELSE [Sd EXCEPT !.i_fallback_counter = @ + 1]
        psz_name == IF oom = "name" THEN NullStr
                    ELSE IF named THEN ToLower(psz_family)
                    ELSE FB_NAME \o <<"-">> \o Pad4(S.i_fallback_counter)
        psz_lc   == IF psz_name = NullStr \/ oom = "lc" THEN NullStr
                    ELSE IF psz_key = NullStr THEN psz_name
                    ELSE ToLower(psz_key)
        p_family == Len(S.fams) + 1
    IN IF oom = "family" THEN [S |-> Sd, family |-> NULL]
       ELSE IF psz_name = NullStr \/ psz_lc = NullStr
            THEN [S |-> S0, family |-> NULL]
       ELSE With([S0 EXCEPT !.fams = Append(@, [psz_name |-> psz_name,
                                                p_fonts |-> NULL, p_next |-> NULL,
                                                freed |-> FALSE])], LAMBDA S1 :
            With(IF pp_list = "none" THEN S1
                 ELSE IF ListHead(S1, pp_list) = NULL
                      THEN SetListHead(S1, pp_list, p_family)
                      ELSE AppendFamily(S1, ListHead(S1, pp_list), p_family),
                 LAMBDA S2 :
                [S |-> IF p_dict = "none" THEN S2
                       ELSE SetDict(S2, p_dict,
                                    vlc_dictionary_insert(Dict(S2, p_dict), psz_lc,
                                                          p_family)),
                 family |-> p_family]))

\* pp_list is "none", "p_families" or "local"; p_dict is "none", "family_map"
\* or "fallback_map"; S.oom names the allocation that fails, if any, in
\* the calls that follow the first S.oom_after ones
NewFamily(S, psz_family, pp_list, p_dict, psz_key) ==
    LET named    == psz_family # NullStr /\ psz_family # <<>>
        oom      == IF S.oom_after = 0 THEN S.oom ELSE "none"
        Sd       == [S EXCEPT !.oom_after = IF @ > 0 THEN @ - 1 ELSE 0]
        S0       == IF named \/ oom = "family" THEN Sd
                    ELSE [Sd EXCEPT !.i_fallback_counter = @ + 1]
        psz_name == IF oom = "name" THEN NullStr
                    ELSE IF named THEN ToLower(psz_family)
                    ELSE FB_NAME \o <<"-">> \o Pad4(S.i_fallback_counter)
        psz_lc   == IF psz_name = NullStr \/ oom = "lc" THEN NullStr
                    ELSE IF psz_key = NullStr THEN psz_name
                    ELSE ToLower(psz_key)
        p_family == Len(S.fams) + 1
    IN IF oom = "family" THEN [S |-> Sd, family |-> NULL]
       ELSE IF psz_name = NullStr \/ psz_lc = NullStr
            THEN [S |-> S0, family |-> NULL]
       ELSE With([S0 EXCEPT !.fams = Append(@, [psz_name |-> psz_name,
                                                p_fonts |-> NULL, p_next |-> NULL,
                                                freed |-> FALSE])], LAMBDA S1 :
            With(IF pp_list = "none" THEN S1
                 ELSE IF ListHead(S1, pp_list) = NULL
                      THEN SetListHead(S1, pp_list, p_family)
                      ELSE AppendFamily(S1, ListHead(S1, pp_list), p_family),
                 LAMBDA S2 :
            With(vlc_dictionary_value_for_key(Dict(S2, p_dict), psz_lc), LAMBDA p_root :
                [S |-> IF p_dict = "none" THEN S2
                       ELSE IF p_root # NULL THEN AppendFamily(S2, p_root, p_family)
                       ELSE SetDict(S2, p_dict,
                                    vlc_dictionary_insert(Dict(S2, p_dict), psz_lc,
                                                          p_family)),
                 family |-> p_family])))

\* NewFont without the regular-first branch: every font is appended
NewFont_AlwaysAppend(S, psz_file, i_index, b_bold, b_italic, p_parent) ==
    LET p_font == Len(S.fonts) + 1
        S1 == [S EXCEPT !.fonts = Append(@,
                  [psz_fontfile |-> psz_file, i_index |-> i_index,
                   b_bold |-> b_bold, b_italic |-> b_italic,
                   p_face |-> NULL, p_next |-> NULL])]
    IN IF p_parent = NULL THEN [S |-> S1, font |-> p_font]
       ELSE [S |-> AppendFont(S1, p_parent, p_font), font |-> p_font]

\* p_parent = NULL leaves the font unlinked
NewFont(S, psz_file, i_index, b_bold, b_italic, p_parent) ==
    LET p_font == Len(S.fonts) + 1
        head   == S.fams[p_parent].p_fonts
        front  == p_parent # NULL /\ head # NULL
                  /\ (S.fonts[head].b_bold \/ S.fonts[head].b_italic)
                  /\ ~b_bold /\ ~b_italic
        S1 == [S EXCEPT !.fonts = Append(@,
                  [psz_fontfile |-> psz_file, i_index |-> i_index,
                   b_bold |-> b_bold, b_italic |-> b_italic,
                   p_face |-> NULL,
                   p_next |-> IF front THEN head ELSE NULL])]
    IN IF p_parent = NULL THEN [S |-> S1, font |-> p_font]
       ELSE IF front
            THEN [S |-> [S1 EXCEPT !.fams[p_parent].p_fonts = p_font], font |-> p_font]
       ELSE [S |-> AppendFont(S1, p_parent, p_font), font |-> p_font]

MakeFilePath(psz_filename) ==
    IF psz_filename = NullStr THEN NullStr
    ELSE IF psz_filename # <<>> /\ psz_filename[1] = DIR_SEP_CHAR THEN psz_filename
    ELSE SYSTEM_FONT_PATH \o <<DIR_SEP_CHAR>> \o psz_filename

StaticMap_GetFamily(S, psz_family) ==
    LET psz_lc   == ToLower(psz_family)
        S0       == Log(S, <<"get_family", psz_family>>)
        p_family == vlc_dictionary_value_for_key(S.family_map, psz_lc)
        psz_file == IF StrCaseEq(psz_family, DEFAULT_FAMILY)
                    THEN (IF S.psz_fontfile # NullStr THEN S.psz_fontfile
                          ELSE DEFAULT_FONT_FILE)
                    ELSE IF StrCaseEq(psz_family, DEFAULT_MONOSPACE_FAMILY)
                    THEN DEFAULT_MONOSPACE_FONT_FILE
                    ELSE NullStr
    IN IF p_family # NULL THEN [S |-> S0, family |-> p_family]
       ELSE IF psz_file = NullStr THEN [S |-> S0, family |-> NULL]
       ELSE With(NewFamily(S0, psz_lc, "p_families", "family_map", psz_lc), LAMBDA n :
            IF n.family = NULL THEN n
            ELSE [S |-> NewFont(n.S, MakeFilePath(psz_file), 0, FALSE, FALSE,
                                n.family).S,
                  family |-> n.family])

\* p_sys->pf_get_family
pf_get_family(S, psz_family) == StaticMap_GetFamily(S, psz_family)

\* FreeFamilies(): the nodes of the chain are released, their fonts are not
RECURSIVE FreeFamilies(_, _)
FreeFamilies(S, p_family) ==
    LET S1 == IF S.fams[p_family].p_next # NULL
              THEN FreeFamilies(S, S.fams[p_family].p_next) ELSE S
    IN [S1 EXCEPT !.fams[p_family].freed = TRUE]

RECURSIVE InitDefaultListLoop(_, _, _)
InitDefaultListLoop(S, ppsz_default, i) ==
    IF i > Len(ppsz_default) THEN [S |-> S, ok |-> TRUE]
    ELSE With(pf_get_family(S, ppsz_default[i]), LAMBDA g :
         IF g.family = NULL THEN InitDefaultListLoop(g.S, ppsz_default, i + 1)
         ELSE With(NewFamily(g.S, ppsz_default[i], "local", "none", NullStr), LAMBDA n :
              IF n.family = NULL THEN [S |-> n.S, ok |-> FALSE]
              ELSE InitDefaultListLoop(
                       [n.S EXCEPT !.fams[n.family].p_fonts = n.S.fams[g.family].p_fonts],
                       ppsz_default, i + 1)))

\* InitDefaultList without the error exit: the list made so far is stored
InitDefaultList_StoreOnError(S, ppsz_default) ==
    With(InitDefaultListLoop([S EXCEPT !.p_local = NULL], ppsz_default, 1), LAMBDA l :
        LET p_default == l.S.p_local
        IN IF p_default # NULL
           THEN [S |-> [l.S EXCEPT !.fallback_map =
                           vlc_dictionary_insert(@, FB_LIST_DEFAULT, p_default)],
                 family |-> p_default]
           ELSE [S |-> l.S, family |-> NULL])

InitDefaultList(S, ppsz_default) ==
    With(InitDefaultListLoop([S EXCEPT !.p_local = NULL], ppsz_default, 1), LAMBDA l :
        LET p_default == l.S.p_local
        IN IF ~l.ok
           THEN [S |-> IF p_default # NULL THEN FreeFamilies(l.S, p_default) ELSE l.S,
                 family |-> NULL]
           ELSE IF p_default # NULL
                THEN [S |-> [l.S EXCEPT !.fallback_map =
                                vlc_dictionary_insert(@, FB_LIST_DEFAULT, p_default)],
                      family |-> p_default]
           ELSE [S |-> l.S, family |-> NULL])

(***************************************************************************)
(* The fallback search and the exact-name search.                          *)
(***************************************************************************)
\* The population made for every entry, those with variants included
PopulateFallback_Always(S, p_fallback) ==
    With(pf_get_family(S, S.fams[p_fallback].psz_name), LAMBDA t :
         IF t.family = NULL \/ t.S.fams[t.family].p_fonts = NULL THEN t.S
         ELSE [t.S EXCEPT !.fams[p_fallback].p_fonts = t.S.fams[t.family].p_fonts])

\* Lines 203-211: an entry without variants takes the variant list of the
\* family get_family resolves its name to
PopulateFallback(S, p_fallback) ==
    IF S.fams[p_fallback].p_fonts # NULL THEN S
    ELSE With(pf_get_family(S, S.fams[p_fallback].psz_name), LAMBDA t :
         IF t.family = NULL \/ t.S.fams[t.family].p_fonts = NULL THEN t.S
         ELSE [t.S EXCEPT !.fams[p_fallback].p_fonts = t.S.fams[t.family].p_fonts])

\* The search without the break: it goes on and returns the last covering entry
RECURSIVE SearchFallbacksRest(_, _, _, _)
SearchFallbacksRest(S, p_fallback, codepoint, p_family) ==
    IF p_fallback = NULL THEN [S |-> S, family |-> p_family]
    ELSE With(PopulateFallback(Log(S, <<"probe", p_fallback>>), p_fallback), LAMBDA S1 :
         IF S1.fams[p_fallback].p_fonts = NULL
         THEN SearchFallbacksRest(S1, S1.fams[p_fallback].p_next, codepoint, p_family)
         ELSE With(GetFace(S1, S1.fams[p_fallback].p_fonts, codepoint), LAMBDA g :
              SearchFallbacksRest(g.S, g.S.fams[p_fallback].p_next, codepoint,
                                  IF g.face = NULL THEN p_family ELSE p_fallback)))

SearchFallbacksLoop_NoBreak(S, p_fallback, codepoint) ==
    SearchFallbacksRest(S, p_fallback, codepoint, NULL)

RECURSIVE SearchFallbacksLoop(_, _, _)
SearchFallbacksLoop(S, p_fallback, codepoint) ==
    IF p_fallback = NULL THEN [S |-> S, family |-> NULL]
    ELSE With(PopulateFallback(Log(S, <<"probe", p_fallback>>), p_fallback), LAMBDA S1 :
         IF S1.fams[p_fallback].p_fonts = NULL
         THEN SearchFallbacksLoop(S1, S1.fams[p_fallback].p_next, codepoint)
         ELSE With(GetFace(S1, S1.fams[p_fallback].p_fonts, codepoint), LAMBDA g :
              IF g.face = NULL
              THEN SearchFallbacksLoop(g.S, g.S.fams[p_fallback].p_next, codepoint)
              ELSE [S |-> g.S, family |-> p_fallback]))

SearchFallbacks(S, p_fallbacks, codepoint) ==
    SearchFallbacksLoop(S, p_fallbacks, codepoint)

\* The exact-name search with strcmp for strcasecmp
RECURSIVE SearchFontByFamilyName_CaseSensitive(_, _, _, _)
SearchFontByFamilyName_CaseSensitive(S, p_list, psz_familyname, codepoint) ==
    IF p_list = NULL THEN [S |-> S, family |-> NULL]
    ELSE LET p == S.fams[p_list]
         IN IF p.psz_name = psz_familyname /\ p.p_fonts # NULL
            THEN With(GetFace(S, p.p_fonts, codepoint), LAMBDA g :
                 IF g.face # NULL THEN [S |-> g.S, family |-> p_list]
                 ELSE SearchFontByFamilyName_CaseSensitive(g.S, g.S.fams[p_list].p_next, psz_familyname, codepoint))
            ELSE SearchFontByFamilyName_CaseSensitive(S, p.p_next, psz_familyname, codepoint)

RECURSIVE SearchFontByFamilyName(_, _, _, _)
SearchFontByFamilyName(S, p_list, psz_familyname, codepoint) ==
    IF p_list = NULL THEN [S |-> S, family |-> NULL]
    ELSE LET p == S.fams[p_list]
         IN IF StrCaseEq(p.psz_name, psz_familyname) /\ p.p_fonts # NULL
            THEN With(GetFace(S, p.p_fonts, codepoint), LAMBDA g :
                 IF g.face # NULL THEN [S |-> g.S, family |-> p_list]
                 ELSE SearchFontByFamilyName(g.S, g.S.fams[p_list].p_next, psz_familyname, codepoint))
            ELSE SearchFontByFamilyName(S, p.p_next, psz_familyname, codepoint)

(***************************************************************************)
(* The family-spec parser.                                                 *)
(***************************************************************************)
IsBlank(c) == c = " " \/ c = "\t"

RECURSIVE TrimLeft(_)
TrimLeft(s) == IF s # <<>> /\ IsBlank(Head(s)) THEN TrimLeft(Tail(s)) ELSE s

RECURSIVE TrimRight(_)
TrimRight(s) == IF s # <<>> /\ IsBlank(s[Len(s)])
                THEN TrimRight(SubSeq(s, 1, Len(s) - 1)) ELSE s

\* The trimming without its second loop: the trailing blanks stay
TrimWhiteSpace_LeadingOnly(s) == TrimLeft(s)

TrimWhiteSpace(s) == TrimRight(TrimLeft(s))

AddSingleFamily(psz, families) ==
    LET t == TrimWhiteSpace(psz)
        u == IF Len(t) > 0 /\ t[1] = "\"" /\ t[Len(t)] = "\""
             THEN SubSeq(t, 2, Len(t) - 1) ELSE t
    IN IF Len(u) > 0 THEN Append(families, u) ELSE families

\* strtok_r( ",", ... ): the maximal runs of characters other than the comma
RECURSIVE StrTok(_, _, _)
StrTok(s, cur, toks) ==
    IF s = <<>> THEN (IF cur = <<>> THEN toks ELSE Append(toks, cur))
    ELSE IF Head(s) = ","
         THEN StrTok(Tail(s), <<>>, IF cur = <<>> THEN toks ELSE Append(toks, cur))
    ELSE StrTok(Tail(s), Append(cur, Head(s)), toks)

RECURSIVE SplitLoop(_, _)
SplitLoop(toks, families) ==
    IF toks = <<>> THEN families
    ELSE SplitLoop(Tail(toks), AddSingleFamily(Head(toks), families))

SplitIntoSingleFamily(psz_spec) ==
    IF psz_spec = NullStr THEN <<>>
    ELSE SplitLoop(StrTok(psz_spec, <<>>, <<>>), <<>>)

(***************************************************************************)
(* The tiered resolution.                                                  *)
(***************************************************************************)
\* p_sys->pf_get_fallbacks: the memoized forest of the family name
GetFallbacks(S, psz_family, codepoint) ==
    vlc_dictionary_value_for_key(S.fallback_map, ToLower(psz_family))

\* Lines 556-563: the exact-name search of the attachments for one name
SearchAttachments(S, psz_name, codepoint) ==
    LET p_fallbacks == vlc_dictionary_value_for_key(S.fallback_map, FB_LIST_ATTACHMENTS)
    IN IF p_fallbacks # NULL
       THEN SearchFontByFamilyName(S, p_fallbacks, psz_name, codepoint)
       ELSE [S |-> S, family |-> NULL]

\* Lines 565-572: the family get_family resolves the name to, when its first
\* variant has the glyph
SearchRegistry(S, psz_name, codepoint) ==
    With(pf_get_family(S, psz_name), LAMBDA r :
        IF r.family # NULL /\ r.S.fams[r.family].p_fonts # NULL
        THEN With(GetFace(r.S, r.S.fams[r.family].p_fonts, codepoint), LAMBDA g :
             [S |-> g.S, family |-> IF g.face # NULL THEN r.family ELSE NULL])
        ELSE [S |-> r.S, family |-> NULL])

\* Lines 577-583 and 602-608: the fallback search of the list of a key
SearchFallbackList(S, psz_key, codepoint) ==
    LET p_fallbacks == vlc_dictionary_value_for_key(S.fallback_map, psz_key)
    IN IF p_fallbacks # NULL THEN SearchFallbacks(S, p_fallbacks, codepoint)
       ELSE [S |-> S, family |-> NULL]

\* Lines 554-574: the exact-name pass over the requested names
RECURSIVE Tier1(_, _, _, _)
RECURSIVE Tier1Attachments(_, _, _, _)
RECURSIVE Tier1Registry(_, _, _, _)

\* The exact-name pass split in two: the attachments for every name, then
\* the registry for every name
Tier1Attachments(S, families, i, codepoint) ==
    IF i > Len(families) THEN [S |-> S, family |-> NULL]
    ELSE With(SearchAttachments(S, families[i], codepoint), LAMBDA a :
         IF a.family # NULL THEN a
         ELSE Tier1Attachments(a.S, families, i + 1, codepoint))

Tier1Registry(S, families, i, codepoint) ==
    IF i > Len(families) THEN [S |-> S, family |-> NULL]
    ELSE With(SearchRegistry(S, families[i], codepoint), LAMBDA r :
         IF r.family # NULL THEN r
         ELSE Tier1Registry(r.S, families, i + 1, codepoint))

Tier1_TwoPasses(S, families, i, codepoint) ==
    With(Tier1Attachments(S, families, i, codepoint), LAMBDA a :
        IF a.family # NULL THEN a ELSE Tier1Registry(a.S, families, i, codepoint))

Tier1(S, families, i, codepoint) ==
    IF i > Len(families) THEN [S |-> S, family |-> NULL]
    ELSE With(SearchAttachments(S, families[i], codepoint), LAMBDA a :
         IF a.family # NULL THEN a
         ELSE With(SearchRegistry(a.S, families[i], codepoint), LAMBDA r :
              IF r.family # NULL THEN r
              ELSE Tier1(r.S, families, i + 1, codepoint)))

\* Lines 586-599: the system fallbacks of the requested names
RECURSIVE Tier3(_, _, _, _)
Tier3(S, families, i, codepoint) ==
    IF i > Len(families) THEN [S |-> S, family |-> NULL]
    ELSE LET S0 == Log(S, <<"get_fallbacks", families[i]>>)
             p_fallbacks == GetFallbacks(S0, families[i], codepoint)
         IN IF p_fallbacks = NULL THEN Tier3(S0, families, i + 1, codepoint)
            ELSE With(SearchFallbacks(S0, p_fallbacks, codepoint), LAMBDA f :
                 IF f.family # NULL /\ f.S.fams[f.family].p_fonts # NULL THEN f
                 ELSE Tier3(f.S, families, i + 1, codepoint))

\* The tiers with the default list searched without the !p_family guard
SelectFamily_DefaultAlways(S, families, codepoint) ==
    With(Tier1(Log(S, <<"tier", 1>>), families, 1, codepoint), LAMBDA t1 :
    With(IF t1.family # NULL THEN t1
         ELSE SearchFallbackList(Log(t1.S, <<"tier", 2>>), FB_LIST_ATTACHMENTS,
                                 codepoint), LAMBDA t2 :
    With(IF t2.family = NULL /\ S.pf_get_fallbacks
         THEN Tier3(Log(t2.S, <<"tier", 3>>), families, 1, codepoint)
         ELSE t2, LAMBDA t3 :
    With(SearchFallbackList(Log(t3.S, <<"tier", 4>>), FB_LIST_DEFAULT, codepoint),
         LAMBDA t4 :
    IF t4.family # NULL THEN [S |-> t4.S, family |-> t4.family, tier |-> 4]
    ELSE [S |-> t4.S, family |-> t3.family,
          tier |-> IF t1.family # NULL THEN 1 ELSE IF t2.family # NULL THEN 2
                   ELSE IF t3.family # NULL THEN 3 ELSE 0]))))

\* Lines 546-612: [S, family, tier], tier = 0 when no tier found a family
SelectFamily(S, families, codepoint) ==
    With(Tier1(Log(S, <<"tier", 1>>), families, 1, codepoint), LAMBDA t1 :
    IF t1.family # NULL THEN [S |-> t1.S, family |-> t1.family, tier |-> 1]
    ELSE
    With(SearchFallbackList(Log(t1.S, <<"tier", 2>>), FB_LIST_ATTACHMENTS, codepoint),
         LAMBDA t2 :
    IF t2.family # NULL THEN [S |-> t2.S, family |-> t2.family, tier |-> 2]
    ELSE
    With(IF S.pf_get_fallbacks
         THEN Tier3(Log(t2.S, <<"tier", 3>>), families, 1, codepoint)
         ELSE [S |-> t2.S, family |-> NULL], LAMBDA t3 :
    IF t3.family # NULL THEN [S |-> t3.S, family |-> t3.family, tier |-> 3]
    ELSE
    With(SearchFallbackList(Log(t3.S, <<"tier", 4>>), FB_LIST_DEFAULT, codepoint),
         LAMBDA t4 :
    IF t4.family # NULL THEN [S |-> t4.S, family |-> t4.family, tier |-> 4]
    ELSE [S |-> t4.S, family |-> NULL, tier |-> 0]))))

\* The return of NULL
NoFont(S) == [S |-> S, fontfile |-> NullStr, idx |-> 0, family |-> NULL,
              tier |-> 0, font |-> NULL, defaulted |-> FALSE]

\* Lines 614-625: the default family when no family with fonts is settled,
\* then the scorer; t is [S, family, tier]
SettleFont(t, p_style, codepoint) ==
    LET b_bold   == "BOLD" \in p_style.i_style_flags
        b_italic == "ITALIC" \in p_style.i_style_flags
        subst    == t.family = NULL \/ t.S.fams[t.family].p_fonts = NULL
    IN With(IF subst THEN pf_get_family(t.S, DEFAULT_FAMILY)
            ELSE [S |-> t.S, family |-> t.family], LAMBDA d :
       IF d.family = NULL THEN NoFont(d.S)
       ELSE With(GetBestFont(d.S, d.family, b_bold, b_italic, codepoint), LAMBDA b :
            IF b.font = NULL
            THEN [NoFont(b.S) EXCEPT !.family = d.family, !.defaulted = subst]
            ELSE [S |-> b.S, fontfile |-> b.S.fonts[b.font].psz_fontfile,
                  idx |-> b.S.fonts[b.font].i_index, family |-> d.family,
                  tier |-> t.tier, font |-> b.font, defaulted |-> subst]))

\* The resolution without the return at line 611: the default family stands in
SelectFontWithFamilyFallback_NoReturn(S, families, p_style, codepoint) ==
    With(IF codepoint # 0 THEN SelectFamily(S, families, codepoint)
         ELSE [S |-> S, family |-> NULL, tier |-> 0], LAMBDA t :
        IF FALSE THEN NoFont(t.S)
        ELSE SettleFont(t, p_style, codepoint))

\* The resolution with the return at line 611 moved out of the codepoint block
SelectFontWithFamilyFallback_ReturnAlways(S, families, p_style, codepoint) ==
    With(IF codepoint # 0 THEN SelectFamily(S, families, codepoint)
         ELSE [S |-> S, family |-> NULL, tier |-> 0], LAMBDA t :
        IF t.family = NULL THEN NoFont(t.S)
        ELSE SettleFont(t, p_style, codepoint))

\* [S, fontfile, idx] with the family and tier that were settled and the font
SelectFontWithFamilyFallback(S, families, p_style, codepoint) ==
    With(IF codepoint # 0 THEN SelectFamily(S, families, codepoint)
         ELSE [S |-> S, family |-> NULL, tier |-> 0], LAMBDA t :
        IF codepoint # 0 /\ t.family = NULL THEN NoFont(t.S)
        ELSE SettleFont(t, p_style, codepoint))

NoSel == [S |-> NULL, fontfile |-> NullStr, idx |-> 0, family |-> NULL,
          tier |-> 0, font |-> NULL, defaulted |-> FALSE]

\* SelectAndLoadFace without the return on an empty family sequence
SelectAndLoadFace_NoEmptyCheck(S, p_style, codepoint) ==
    LET psz_fontname == IF "MONOSPACED" \in p_style.i_style_flags
                        THEN p_style.psz_monofontname ELSE p_style.psz_fontname
    IN With(SplitIntoSingleFamily(psz_fontname), LAMBDA families :
       With(SelectFontWithFamilyFallback(S, families, p_style, codepoint),
            LAMBDA sel :
            IF sel.fontfile # NullStr /\ sel.fontfile # <<>>
            THEN With(LoadFace(sel.S, sel.fontfile, sel.idx, p_style), LAMBDA l :
                 [S |-> l.S, face |-> l.face, families |-> families,
                  sel |-> [sel EXCEPT !.S = NULL]])
            ELSE [S |-> sel.S, face |-> NULL, families |-> families,
                  sel |-> [sel EXCEPT !.S = NULL]]))

SelectAndLoadFace(S, p_style, codepoint) ==
    LET psz_fontname == IF "MONOSPACED" \in p_style.i_style_flags
                        THEN p_style.psz_monofontname ELSE p_style.psz_fontname
    IN With(SplitIntoSingleFamily(psz_fontname), LAMBDA families :
       IF Len(families) = 0
       THEN [S |-> S, face |-> NULL, families |-> families, sel |-> NoSel]
       ELSE With(SelectFontWithFamilyFallback(S, families, p_style, codepoint),
                 LAMBDA sel :
            IF sel.fontfile # NullStr /\ sel.fontfile # <<>>
            THEN With(LoadFace(sel.S, sel.fontfile, sel.idx, p_style), LAMBDA l :
                 [S |-> l.S, face |-> l.face, families |-> families,
                  sel |-> [sel EXCEPT !.S = NULL]])
            ELSE [S |-> sel.S, face |-> NULL, families |-> families,
                  sel |-> [sel EXCEPT !.S = NULL]]))

(***************************************************************************)
(* The state machine.                                                      *)
(***************************************************************************)
\* The program state without the history and the last call
Prog == [fonts |-> fonts, fams |-> fams, p_families |-> p_families,
         family_map |-> family_map, fallback_map |-> fallback_map,
         face_map |-> face_map, i_fallback_counter |-> i_fallback_counter,
         i_scale |-> i_scale, psz_fontfile |-> psz_fontfile,
         pf_get_fallbacks |-> pf_get_fallbacks, ft_faces |-> ft_faces]

\* The state a call starts in: ft is what the font engine will answer to the
\* opens of the call, oom the allocation that will fail
Cur(ft, oom) ==
    [fonts |-> fonts, fams |-> fams, p_families |-> p_families,
     family_map |-> family_map, fallback_map |-> fallback_map,
     face_map |-> face_map, i_fallback_counter |-> i_fallback_counter,
     i_scale |-> i_scale, psz_fontfile |-> psz_fontfile,
     pf_get_fallbacks |-> pf_get_fallbacks, ft_faces |-> ft_faces,
     issued |-> issued, p_local |-> NULL, log |-> <<>>, ft |-> ft, oom |-> oom,
     oom_after |-> 0]

AllOk == <<>>

\* The key LoadFace computes for the call recorded in ret
KeyOf(P, in) ==
    LET size == ConvertToLiveSize(P, in.style)
    IN FaceKey(in.file, in.idx, size, FontWidth(size, in.style))

\* The key of the call before this one when that call was a LoadFace that
\* failed, NullStr otherwise
LastFailed ==
    IF ret.op = "LoadFace" /\ ret.out.face = NULL THEN KeyOf(ret.pre, ret.in)
    ELSE NullStr

\* The state a call ends in, and the record of the call
Commit(S, op, in, out) ==
    /\ fonts' = S.fonts
    /\ fams' = S.fams
    /\ p_families' = S.p_families
    /\ family_map' = S.family_map
    /\ fallback_map' = S.fallback_map
    /\ face_map' = S.face_map
    /\ i_fallback_counter' = S.i_fallback_counter
    /\ ft_faces' = S.ft_faces
    /\ issued' = S.issued
    /\ UNCHANGED <<i_scale, psz_fontfile, pf_get_fallbacks>>
    /\ ret' = [op |-> op, in |-> in, out |-> out, log |-> S.log, pre |-> Prog,
               last_failed |-> LastFailed]

NoCall == [op |-> "none", in |-> <<>>, out |-> <<>>, log |-> <<>>, pre |-> <<>>,
           last_failed |-> NullStr]

\* The resolver after construction: empty registry, empty caches
InitSys ==
    /\ fonts = <<>>
    /\ fams = <<>>
    /\ p_families = NULL
    /\ family_map = <<>>
    /\ fallback_map = <<>>
    /\ face_map = <<>>
    /\ i_fallback_counter = 0
    /\ ft_faces = <<>>
    /\ issued = {}
    /\ phase = "new"
    /\ ret = NoCall

(***************************************************************************)
(* The face cache on its own: LoadFace called with any source and style.   *)
(***************************************************************************)
MaxCache == 2

Scales == {100, 50}

FaceSources == {<<FileF, 0>>, <<FileF, 1>>, <<Attach0, 0>>, <<Attach1, 0>>}

Style(size, rel, flags) ==
    [i_font_size |-> size, f_font_relsize |-> rel, i_style_flags |-> flags,
     psz_fontname |-> NullStr, psz_monofontname |-> NullStr]

\* Two styles of one pixel size and width, a third of the same size and
\* another width, a fourth of another size
FaceStyles == {Style(10, 0, {"HALFWIDTH"}), Style(0, 5, {"HALFWIDTH"}),
               Style(10, 0, {}), Style(0, 0, {"DOUBLEWIDTH"})}

\* (source and face index, answer of the font engine, style) of the calls:
\* every answer and every style for the first face of the file, one style for
\* the other sources, a failed open for the attachment
FaceCalls == ({<<FileF, 0>>} \X FT_Outcomes \X FaceStyles)
             \cup {<<s, "ok", Style(10, 0, {})>> : s \in FaceSources \ {<<FileF, 0>>}}
             \cup {<<<<Attach0, 0>>, "open_err", Style(10, 0, {})>>}

InitFace ==
    /\ InitSys
    /\ i_scale \in Scales
    /\ psz_fontfile = NullStr
    /\ pf_get_fallbacks = FALSE

DoLoadFace ==
    \E c \in FaceCalls :
        \E src \in {c[1]}, outcome \in {c[2]}, p_style \in {c[3]} :
        \E r \in {LoadFace(Cur(src[1] :> outcome, "none"), src[1], src[2], p_style)} :
           /\ Len(r.S.face_map) <= MaxCache
           /\ UNCHANGED phase
           /\ Commit(r.S, "LoadFace",
                     [file |-> src[1], idx |-> src[2], style |-> p_style,
                      outcome |-> outcome],
                     [face |-> r.face])

NextFace == DoLoadFace

SpecFace == InitFace /\ [][NextFace]_vars

Opens(log) == {i \in 1..Len(log) : log[i][1] = "open"}

\* C1: face cache identity. Every handle LoadFace returned for a key is the
\* same handle; no open is made for a key that is in the cache; an entry of
\* the cache is never removed, replaced or shadowed, and its face stays open.
C1_CacheIdentity ==
    /\ \A a \in issued, b \in issued : a[1] = b[1] => a[2] = b[2]
    /\ \A i \in Opens(ret.log) : ~ret.log[i][5]
    /\ ret.op # "none" =>
         /\ \A k \in DictKeys(ret.pre.face_map) :
               vlc_dictionary_value_for_key(face_map, k)
                 = vlc_dictionary_value_for_key(ret.pre.face_map, k)
         /\ \A i \in 1..Len(face_map), j \in 1..Len(face_map) :
               face_map[i][1] = face_map[j][1] => i = j
         /\ DictValues(face_map) \subseteq DOMAIN ft_faces
    /\ (ret.op = "LoadFace"
        /\ vlc_dictionary_value_for_key(ret.pre.face_map, KeyOf(ret.pre, ret.in)) # NULL)
       => /\ ret.out.face
               = vlc_dictionary_value_for_key(ret.pre.face_map, KeyOf(ret.pre, ret.in))
          /\ Opens(ret.log) = {}

\* A second LoadFace with another style of the same key gets the cached handle
C1_Witness ==
    /\ ret.op = "LoadFace"
    /\ ret.in.style = Style(10, 0, {"HALFWIDTH"})
    /\ ret.out.face # NULL
    /\ Len(ret.pre.face_map) = 2
    /\ ret.pre.face_map[2][1] = KeyOf(ret.pre, ret.in)
    /\ ret.out.face = ret.pre.face_map[2][2]
    /\ face_map = ret.pre.face_map

\* LoadFace had to open the source: an attachment index in range, or a file
MustOpen(in) ==
    IsAttachment(in.file) =>
        LET i_attach == Atoi(SubSeq(in.file, 3, Len(in.file)))
        IN i_attach >= 0 /\ i_attach < i_font_attachments

\* C11: a LoadFace that fails (open error, attachment index out of range,
\* charmap error, size error) returns none, leaves the face cache as it was
\* with no entry for the key and leaves no face open; a LoadFace with the key
\* of the failed call before it attempts the open again.
C11_FailureNotCached ==
    ret.op = "LoadFace" =>
        /\ (ret.in.outcome # "ok" \/ ~MustOpen(ret.in)
            \/ ret.in.idx + 1 > Len(FontWorld(ret.in.file)))
           /\ vlc_dictionary_value_for_key(ret.pre.face_map, KeyOf(ret.pre, ret.in)) = NULL
           => ret.out.face = NULL
        /\ ret.out.face = NULL =>
              /\ face_map = ret.pre.face_map
              /\ vlc_dictionary_value_for_key(face_map, KeyOf(ret.pre, ret.in)) = NULL
              /\ ft_faces = ret.pre.ft_faces
        /\ (ret.last_failed = KeyOf(ret.pre, ret.in) /\ MustOpen(ret.in)) =>
              /\ Opens(ret.log) # {}
              /\ \A i \in Opens(ret.log) :
                    ret.log[i][2] = ret.in.file /\ ret.log[i][3] = ret.in.idx

\* The size was rejected, the cache of one entry kept it; the same key is
\* asked again, the source is opened again and the face is cached
C11_Witness ==
    /\ ret.op = "LoadFace"
    /\ ret.last_failed = KeyOf(ret.pre, ret.in)
    /\ Len(ret.pre.face_map) = 1
    /\ Opens(ret.log) # {}
    /\ ret.out.face # NULL
    /\ vlc_dictionary_value_for_key(face_map, KeyOf(ret.pre, ret.in)) = ret.out.face

\* The size is rejected: no face, the cache of one entry unchanged
C11_WitnessFailure ==
    /\ ret.op = "LoadFace"
    /\ ret.in.outcome = "size_err"
    /\ ret.out.face = NULL
    /\ Opens(ret.log) # {}
    /\ Len(face_map) = 1 /\ face_map = ret.pre.face_map

\* The pixel size and width LoadFace computes for a style
SizeOf(P, p_style) ==
    <<ConvertToLiveSize(P, p_style), FontWidth(ConvertToLiveSize(P, p_style), p_style)>>

\* C12: handles returned for different keys are different, and a style of
\* another pixel size or width gives, for the same source and face index,
\* another key whose cache entry is not the handle this call returned.
C12_SizesNeverShare ==
    /\ \A a \in issued, b \in issued : a[1] # b[1] => a[2] # b[2]
    /\ \A i \in 1..Len(face_map), j \in 1..Len(face_map) :
          i # j => face_map[i][2] # face_map[j][2]
    /\ (ret.op = "LoadFace" /\ ret.out.face # NULL) =>
          \A st \in FaceStyles :
             SizeOf(ret.pre, st) # SizeOf(ret.pre, ret.in.style) =>
                LET other == KeyOf(ret.pre, [ret.in EXCEPT !.style = st])
                IN /\ other # KeyOf(ret.pre, ret.in)
                   /\ vlc_dictionary_value_for_key(face_map, other) # ret.out.face

\* The source is cached at size 10 and width 5; it is asked at size 10 and
\* width 10 and another face is opened and cached beside the first
C12_Witness ==
    /\ ret.op = "LoadFace" /\ ret.out.face # NULL
    /\ ret.in.style = Style(10, 0, {})
    /\ SizeOf(ret.pre, ret.in.style) = <<10, 10>>
    /\ Len(ret.pre.face_map) = 1
    /\ ret.pre.face_map[1][1] = KeyOf(ret.pre, [ret.in EXCEPT !.style =
                                                   Style(10, 0, {"HALFWIDTH"})])
    /\ Len(face_map) = 2
    /\ ret.out.face # ret.pre.face_map[1][2]

(***************************************************************************)
(* The scorer on its own: one registered family, fonts added to it by      *)
(* NewFont, GetBestFont called with any style.                             *)
(***************************************************************************)
MaxFonts == 4

\* A registry family's font list as a sequence of font pointers
RECURSIVE FontChain(_, _)
FontChain(F, p) == IF p = NULL THEN <<>> ELSE <<p>> \o FontChain(F, F[p].p_next)

\* (file, bold, italic): the four styles without the glyph, two with it
ScoreFonts == {<<FileG, FALSE, FALSE>>, <<FileG, TRUE, FALSE>>,
               <<FileG, FALSE, TRUE>>, <<FileG, TRUE, TRUE>>,
               <<FileF, FALSE, TRUE>>, <<FileF, FALSE, FALSE>>}

InitScore ==
    /\ InitSys
    /\ i_scale = 100
    /\ psz_fontfile = NullStr
    /\ pf_get_fallbacks = FALSE

\* The platform registers the family
DoRegisterFamily ==
    /\ phase = "new"
    /\ \E n \in {NewFamily(Cur(AllOk, "none"), <<"A">>, "p_families", "family_map",
                           <<"A">>)} :
          Commit(n.S, "NewFamily", [name |-> <<"A">>], [family |-> n.family])
    /\ phase' = "build"

\* The platform adds a font to the family
DoNewFont ==
    /\ phase = "build"
    /\ Len(fonts) < MaxFonts
    /\ \E f \in ScoreFonts :
          \E n \in {NewFont(Cur(AllOk, "none"), f[1], 0, f[2], f[3], 1)} :
             Commit(n.S, "NewFont",
                    [file |-> f[1], b_bold |-> f[2], b_italic |-> f[3], parent |-> 1],
                    [font |-> n.font])
    /\ UNCHANGED phase

DoGetBestFont ==
    /\ phase \in {"build", "run"}
    /\ \E b_bold \in BOOLEAN, b_italic \in BOOLEAN, codepoint \in {0, CP} :
          \E b \in {GetBestFont(Cur(AllOk, "none"), 1, b_bold, b_italic, codepoint)} :
             Commit(b.S, "GetBestFont",
                    [family |-> 1, b_bold |-> b_bold, b_italic |-> b_italic,
                     codepoint |-> codepoint],
                    [font |-> b.font])
    /\ phase' = "run"

NextScore == DoRegisterFamily \/ DoNewFont \/ DoGetBestFont

SpecScore == InitScore /\ [][NextScore]_vars

\* The face of the font is loaded and has the glyph
Covers(p_font, codepoint) ==
    /\ fonts[p_font].p_face # NULL
    /\ codepoint \in FontWorld(ft_faces[fonts[p_font].p_face].src)
                              [ft_faces[fonts[p_font].p_face].idx + 1]

\* The score of the rule: +1000 coverage, +100 bold matches, +10 italic matches
RuleScore(p_font, b_bold, b_italic, codepoint) ==
    (IF codepoint # 0 /\ Covers(p_font, codepoint) THEN 1000 ELSE 0)
    + (IF fonts[p_font].b_bold = b_bold THEN 100 ELSE 0)
    + (IF fonts[p_font].b_italic = b_italic THEN 10 ELSE 0)

ScoreOf(p_font) == RuleScore(p_font, ret.in.b_bold, ret.in.b_italic, ret.in.codepoint)

ScoredChain == FontChain(fonts, fams[ret.in.family].p_fonts)

\* C5: the font GetBestFont returns has the maximal score of the rule among
\* the variants of the family, so with a codepoint it covers the codepoint
\* whenever some variant does, whatever the flags.
C5_CoverageDominates ==
    (ret.op = "GetBestFont" /\ ScoredChain # <<>>) =>
        /\ \E i \in 1..Len(ScoredChain) : ScoredChain[i] = ret.out.font
        /\ \A i \in 1..Len(ScoredChain) : ScoreOf(ScoredChain[i]) <= ScoreOf(ret.out.font)
        /\ (ret.in.codepoint # 0
            /\ \E i \in 1..Len(ScoredChain) : Covers(ScoredChain[i], ret.in.codepoint))
           => Covers(ret.out.font, ret.in.codepoint)

\* {Regular, Bold, Italic, BoldItalic} with the glyph in Italic only: a
\* (bold = false, italic = false) request returns Italic
C5_Witness ==
    /\ ret.op = "GetBestFont"
    /\ ret.in.codepoint = CP /\ ~ret.in.b_bold /\ ~ret.in.b_italic
    /\ Len(ScoredChain) = 4
    /\ \A i \in 1..4 : fonts[ScoredChain[i]].b_bold = (i \in {2, 4})
                    /\ fonts[ScoredChain[i]].b_italic = (i \in {3, 4})
                    /\ Covers(ScoredChain[i], CP) = (i = 3)
    /\ ret.out.font = ScoredChain[3]

\* C6: for a family with at least one variant the result is non-null and is
\* the earliest variant in list order among those of maximal score; when all
\* variants score zero it is the first variant.
C6_FirstBestWins ==
    (ret.op = "GetBestFont" /\ ScoredChain # <<>>) =>
        /\ ret.out.font # NULL
        /\ \E i \in 1..Len(ScoredChain) :
              /\ ScoredChain[i] = ret.out.font
              /\ \A j \in 1..Len(ScoredChain) :
                    /\ ScoreOf(ScoredChain[j]) <= ScoreOf(ScoredChain[i])
                    /\ j < i => ScoreOf(ScoredChain[j]) < ScoreOf(ScoredChain[i])
        /\ (\A j \in 1..Len(ScoredChain) : ScoreOf(ScoredChain[j]) = 0)
           => ret.out.font = ScoredChain[1]

\* Two variants, both scoring zero: the first is returned
C6_Witness ==
    /\ ret.op = "GetBestFont"
    /\ Len(ScoredChain) >= 2
    /\ \A j \in 1..Len(ScoredChain) : ScoreOf(ScoredChain[j]) = 0
    /\ ret.in.codepoint # 0
    /\ ret.out.font = ScoredChain[1]

\* Two variants tie on a positive score and the earlier one is returned
C6_WitnessTie ==
    /\ ret.op = "GetBestFont"
    /\ \E i \in 1..Len(ScoredChain), j \in 1..Len(ScoredChain) :
          /\ i < j
          /\ ScoredChain[i] = ret.out.font
          /\ ScoreOf(ScoredChain[j]) = ScoreOf(ScoredChain[i])
          /\ ScoreOf(ScoredChain[i]) > 1000

Plain(F, p_font) == ~F[p_font].b_bold /\ ~F[p_font].b_italic

\* C15: in every family the first variant is plain when some variant is; a
\* plain font added while the head is bold or italic becomes the head, any
\* other font is added at the tail, and the variants that were there keep
\* their order and their flags.
C15_RegularFirst ==
    /\ \A p \in 1..Len(fams) :
          LET chain == FontChain(fonts, fams[p].p_fonts)
          IN (\E i \in 1..Len(chain) : Plain(fonts, chain[i])) => Plain(fonts, chain[1])
    /\ ret.op = "NewFont" =>
          LET old == FontChain(ret.pre.fonts, ret.pre.fams[ret.in.parent].p_fonts)
              new == FontChain(fonts, fams[ret.in.parent].p_fonts)
          IN /\ IF ~ret.in.b_bold /\ ~ret.in.b_italic
                   /\ old # <<>> /\ ~Plain(ret.pre.fonts, old[1])
                THEN new = <<ret.out.font>> \o old
                ELSE new = old \o <<ret.out.font>>
             /\ fonts[ret.out.font].b_bold = ret.in.b_bold
             /\ fonts[ret.out.font].b_italic = ret.in.b_italic
             /\ \A i \in 1..Len(old) :
                   /\ fonts[old[i]].b_bold = ret.pre.fonts[old[i]].b_bold
                   /\ fonts[old[i]].b_italic = ret.pre.fonts[old[i]].b_italic
                   /\ fonts[old[i]].psz_fontfile = ret.pre.fonts[old[i]].psz_fontfile

\* A plain font is added to a bold and an italic one and becomes the head
C15_Witness ==
    /\ ret.op = "NewFont"
    /\ ~ret.in.b_bold /\ ~ret.in.b_italic
    /\ Len(FontChain(ret.pre.fonts, ret.pre.fams[ret.in.parent].p_fonts)) = 2
    /\ ~Plain(ret.pre.fonts, ret.pre.fams[ret.in.parent].p_fonts)
    /\ fams[ret.in.parent].p_fonts = ret.out.font
    /\ Len(FontChain(fonts, fams[ret.in.parent].p_fonts)) = 3

\* A second plain font is added behind the styled ones: the head stays
C15_WitnessAppend ==
    /\ ret.op = "NewFont"
    /\ ~ret.in.b_bold /\ ~ret.in.b_italic
    /\ Len(FontChain(fonts, fams[ret.in.parent].p_fonts)) = 3
    /\ fams[ret.in.parent].p_fonts # ret.out.font
    /\ ~Plain(fonts, FontChain(fonts, fams[ret.in.parent].p_fonts)[2])

(***************************************************************************)
(* The resolver in use: the platform registers families, fonts and         *)
(* fallback lists, then faces are requested.                               *)
(***************************************************************************)
NameA == <<"a">>
NameB == <<"b">>

\* One registration step of the platform
ApplyOp(S, op) ==
    CASE op[1] = "family" ->
            NewFamily(S, op[2], "p_families", "family_map", op[2]).S
      [] op[1] = "font" ->
            NewFont(S, op[3], 0, op[4], FALSE,
                    vlc_dictionary_value_for_key(S.family_map, ToLower(op[2]))).S
      [] op[1] = "entry" ->
            \* an entry of the fallback list op[2]; op[4]: it shares the font
            \* list of the registered family of its name, else it is left
            \* to be populated by the search
            With(NewFamily(S, op[3], "none", "fallback_map", op[2]), LAMBDA n :
                LET r == vlc_dictionary_value_for_key(S.family_map, ToLower(op[3]))
                IN IF op[4] /\ r # NULL
                   THEN [n.S EXCEPT !.fams[n.family].p_fonts = n.S.fams[r].p_fonts]
                   ELSE n.S)
      [] op[1] = "default" -> InitDefaultList(S, op[2]).S

RECURSIVE ApplyScript(_, _)
ApplyScript(S, script) ==
    IF script = <<>> THEN S ELSE ApplyScript(ApplyOp(S, Head(script)), Tail(script))

\* The registrations of a family: its font files, the first regular, the next bold
FamilyScript(name, files) ==
    <<<<"family", name>>>> \o [i \in 1..Len(files) |-> <<"font", name, files[i], i > 1>>]

ListScript(key, names, shared) ==
    [i \in 1..Len(names) |-> <<"entry", key, names[i], shared>>]

ScriptsA == {<<>>} \cup {FamilyScript(<<"A">>, fl) :
                           fl \in {<<FileF>>, <<FileG, FileF>>, <<FileF, FileG>>}}

ScriptsB == {<<>>} \cup {FamilyScript(NameB, fl) : fl \in {<<FileF>>, <<FileG>>}}

ScriptsAttachments ==
    {<<>>,
     ListScript(FB_LIST_ATTACHMENTS, <<NameA>>, TRUE),
     ListScript(FB_LIST_ATTACHMENTS, <<NameB, NameA>>, TRUE),
     ListScript(FB_LIST_ATTACHMENTS, <<NameA, NameB>>, FALSE)}

ScriptsFallbacks ==
    {<<>>,
     ListScript(<<"A">>, <<NameB>>, FALSE)
        \o ListScript(NameB, <<DEFAULT_FAMILY>>, FALSE)}

ScriptsDefault == {<<>>, <<<<"default", <<NameB, DEFAULT_FAMILY>>>>>>,
                   <<<<"default", <<DEFAULT_MONOSPACE_FAMILY>>>>>>}

Init ==
    /\ InitSys
    /\ i_scale = 100
    /\ psz_fontfile = NullStr
    /\ pf_get_fallbacks \in BOOLEAN

\* The platform registers its families, attachments and fallback lists
DoPopulate ==
    /\ phase = "new"
    /\ \E sa \in ScriptsA, sb \in ScriptsB, st \in ScriptsAttachments,
          sf \in (IF pf_get_fallbacks THEN ScriptsFallbacks ELSE {<<>>}),
          sd \in ScriptsDefault :
          LET script == sa \o sb \o st \o sf \o sd
          IN Commit(ApplyScript(Cur(AllOk, "none"), script), "Populate",
                    [script |-> script], [ok |-> TRUE])
    /\ phase' = "ready"

\* The family specifications of the requests
FontNames == {<<"a">>, <<"A", ",", "b">>, <<"b", ",", " ", "a">>, <<"c">>}

Codepoints == {0, CP}

\* (family specification, codepoint, font engine) of a request
Requests == (FontNames \X Codepoints \X {AllOk} \X {{}})
            \cup {<<NameA, CP, FileF :> "open_err", {}>>,
                  <<NameA, CP, AllOk, {"BOLD"}>>}
            \cup {<<NullStr, 0, AllOk, {}>>,
                  <<NullStr, CP, AllOk, {"MONOSPACED"}>>,
                  <<<<>>, CP, AllOk, {}>>,
                  <<<<>>, 0, AllOk, {"MONOSPACED"}>>,
                  <<<<",", " ", ",">>, 0, AllOk, {"BOLD", "ITALIC"}>>,
                  <<<<",", " ", ",">>, CP, AllOk, {}>>}

DoSelectAndLoadFace ==
    /\ phase = "ready"
    /\ \E rq \in Requests :
          \E p_style \in {IF "MONOSPACED" \in rq[4]
                          THEN [Style(10, 0, rq[4]) EXCEPT !.psz_fontname = NameA,
                                                           !.psz_monofontname = rq[1]]
                          ELSE [Style(10, 0, rq[4]) EXCEPT !.psz_fontname = rq[1]]} :
          \E r \in {SelectAndLoadFace(Cur(rq[3], "none"), p_style, rq[2])} :
             Commit(r.S, "SelectAndLoadFace",
                    [style |-> p_style, codepoint |-> rq[2], ft |-> rq[3],
                     families |-> r.families],
                    [face |-> r.face, sel |-> r.sel])
    /\ UNCHANGED phase

Next == DoPopulate \/ DoSelectAndLoadFace

Spec == Init /\ [][Next]_vars

(***************************************************************************)
(* What a request can find in the state P it starts in, when the font      *)
(* engine answers ft: stated on the data, not on the search.               *)
(***************************************************************************)
RECURSIVE FamChain(_, _)
FamChain(F, p) == IF p = NULL THEN <<>> ELSE <<p>> \o FamChain(F, F[p].p_next)

\* The face of (file, index) at the default style has the glyph
FileHasGlyph(P, ft, psz_file, i_idx, codepoint) ==
    LET size   == ConvertToLiveSize(P, p_default_style)
        key    == FaceKey(psz_file, i_idx, size, FontWidth(size, p_default_style))
        cached == vlc_dictionary_value_for_key(P.face_map, key)
    IN IF cached # NULL
       THEN codepoint \in FontWorld(P.ft_faces[cached].src)[P.ft_faces[cached].idx + 1]
       ELSE /\ ~(IsAttachment(psz_file)
                 /\ Atoi(SubSeq(psz_file, 3, Len(psz_file))) >= i_font_attachments)
            /\ i_idx < Len(FontWorld(psz_file))
            /\ (psz_file \in DOMAIN ft => ft[psz_file] = "ok")
            /\ codepoint \in FontWorld(psz_file)[i_idx + 1]

FontHasGlyph(P, ft, p_font, codepoint) ==
    IF P.fonts[p_font].p_face # NULL
    THEN codepoint \in FontWorld(P.ft_faces[P.fonts[p_font].p_face].src)
                                [P.ft_faces[P.fonts[p_font].p_face].idx + 1]
    ELSE FileHasGlyph(P, ft, P.fonts[p_font].psz_fontfile,
                      P.fonts[p_font].i_index, codepoint)

\* get_family would resolve the name to a family whose first variant has the glyph
NameCovers(P, ft, psz_name, codepoint) ==
    LET reg == vlc_dictionary_value_for_key(P.family_map, ToLower(psz_name))
    IN IF reg # NULL
       THEN /\ P.fams[reg].p_fonts # NULL
            /\ FontHasGlyph(P, ft, P.fams[reg].p_fonts, codepoint)
       ELSE IF StrCaseEq(psz_name, DEFAULT_FAMILY)
       THEN FileHasGlyph(P, ft, MakeFilePath(DEFAULT_FONT_FILE), 0, codepoint)
       ELSE IF StrCaseEq(psz_name, DEFAULT_MONOSPACE_FAMILY)
       THEN FileHasGlyph(P, ft, MakeFilePath(DEFAULT_MONOSPACE_FONT_FILE), 0, codepoint)
       ELSE FALSE

\* The first variant of the forest entry, populated on demand, has the glyph
EntryCovers(P, ft, p_entry, codepoint) ==
    IF P.fams[p_entry].p_fonts # NULL
    THEN FontHasGlyph(P, ft, P.fams[p_entry].p_fonts, codepoint)
    ELSE NameCovers(P, ft, P.fams[p_entry].psz_name, codepoint)

\* The forest of a fallback list as a sequence of entries
Forest(P, key) == FamChain(P.fams, vlc_dictionary_value_for_key(P.fallback_map, key))

FirstCovering(P, ft, chain, codepoint) ==
    IF \E i \in 1..Len(chain) : EntryCovers(P, ft, chain[i], codepoint)
    THEN chain[CHOOSE i \in 1..Len(chain) :
                 /\ EntryCovers(P, ft, chain[i], codepoint)
                 /\ \A j \in 1..(i - 1) : ~EntryCovers(P, ft, chain[j], codepoint)]
    ELSE NULL

\* The exact-name search over the attachments: the first entry of the name
\* that has variants and whose first variant has the glyph
AttMatch(P, ft, psz_name, codepoint) ==
    LET chain == Forest(P, FB_LIST_ATTACHMENTS)
        hit(i) == /\ StrCaseEq(P.fams[chain[i]].psz_name, psz_name)
                  /\ P.fams[chain[i]].p_fonts # NULL
                  /\ FontHasGlyph(P, ft, P.fams[chain[i]].p_fonts, codepoint)
    IN IF \E i \in 1..Len(chain) : hit(i)
       THEN chain[CHOOSE i \in 1..Len(chain) : hit(i) /\ \A j \in 1..(i - 1) : ~hit(j)]
       ELSE NULL

\* The name has a tier 1 match: in the attachments or in the registry
Tier1Name(P, ft, psz_name, codepoint) ==
    AttMatch(P, ft, psz_name, codepoint) # NULL \/ NameCovers(P, ft, psz_name, codepoint)

\* The name has a system fallback list with a covering entry
Tier3Name(P, ft, psz_name, codepoint) ==
    FirstCovering(P, ft, Forest(P, ToLower(psz_name)), codepoint) # NULL

Least(I) == CHOOSE i \in I : \A j \in I : i <= j

\* The lowest tier that has a match for the request, 0 when none has
MatchingTier(P, ft, names, codepoint) ==
    IF \E i \in 1..Len(names) : Tier1Name(P, ft, names[i], codepoint) THEN 1
    ELSE IF FirstCovering(P, ft, Forest(P, FB_LIST_ATTACHMENTS), codepoint) # NULL THEN 2
    ELSE IF P.pf_get_fallbacks
            /\ \E i \in 1..Len(names) : Tier3Name(P, ft, names[i], codepoint) THEN 3
    ELSE IF FirstCovering(P, ft, Forest(P, FB_LIST_DEFAULT), codepoint) # NULL THEN 4
    ELSE 0

\* The last call is a request that reached the resolution
IsSelect == ret.op = "SelectAndLoadFace" /\ Len(ret.in.families) > 0

Sel == ret.out.sel

ExpectedTier == MatchingTier(ret.pre, ret.in.ft, ret.in.families, ret.in.codepoint)

\* The tiers the call consulted, and the names it asked the platform for
TiersConsulted == {ret.log[i][2] : i \in {j \in 1..Len(ret.log) : ret.log[j][1] = "tier"}}

RECURSIVE Asked(_, _)
Asked(log, what) ==
    IF log = <<>> THEN <<>>
    ELSE IF Head(log)[1] = what THEN <<Head(log)[2]>> \o Asked(Tail(log), what)
    ELSE Asked(Tail(log), what)

SeqSet(q) == {q[i] : i \in 1..Len(q)}

\* C2: with a codepoint, the family is settled by the lowest tier that has a
\* match, it is a family of that tier's source, the tiers after it are not
\* consulted, and a match in the default list alone still yields a font.
C2_TierPriority ==
    (IsSelect /\ ret.in.codepoint # 0) =>
        /\ Sel.tier = ExpectedTier
        /\ Sel.tier = 1 =>
              \E i \in 1..Len(ret.in.families) :
                 /\ StrCaseEq(fams[Sel.family].psz_name, ret.in.families[i])
                 /\ Sel.family \in SeqSet(Forest(ret.pre, FB_LIST_ATTACHMENTS))
                                   \cup DictValues(family_map)
        /\ Sel.tier = 2 =>
              Sel.family = FirstCovering(ret.pre, ret.in.ft,
                                         Forest(ret.pre, FB_LIST_ATTACHMENTS),
                                         ret.in.codepoint)
        /\ Sel.tier = 3 =>
              \E i \in 1..Len(ret.in.families) :
                 Sel.family \in SeqSet(Forest(ret.pre, ToLower(ret.in.families[i])))
        /\ Sel.tier = 4 =>
              /\ Sel.family = FirstCovering(ret.pre, ret.in.ft,
                                            Forest(ret.pre, FB_LIST_DEFAULT),
                                            ret.in.codepoint)
              /\ Sel.fontfile # NullStr
        /\ TiersConsulted =
              {k \in 1..4 : (Sel.tier = 0 \/ k <= Sel.tier)
                            /\ (k = 3 => ret.pre.pf_get_fallbacks)}

\* Tiers 1 to 3 were consulted and failed, the default list gave the face
C2_Witness ==
    /\ IsSelect /\ ret.in.codepoint # 0
    /\ Sel.tier = 4
    /\ TiersConsulted = {1, 2, 3, 4}
    /\ Forest(ret.pre, FB_LIST_ATTACHMENTS) # <<>>
    /\ Forest(ret.pre, ToLower(ret.in.families[1])) # <<>>
    /\ ret.out.face # NULL

\* Tier 2 settled the family although the default list had a match too
C2_WitnessShortCircuit ==
    /\ IsSelect /\ ret.in.codepoint # 0
    /\ Sel.tier = 2
    /\ FirstCovering(ret.pre, ret.in.ft, Forest(ret.pre, FB_LIST_DEFAULT),
                     ret.in.codepoint) # NULL
    /\ TiersConsulted = {1, 2}

\* C3 (as claimed): a style-only request whose first family name get_family
\* resolves gets a variant of that family; the default family is substituted
\* only when the first requested family is not present.
C3_StyleOnlyUsesRequested ==
    (IsSelect /\ ret.in.codepoint = 0
     /\ vlc_dictionary_value_for_key(ret.pre.family_map,
                                     ToLower(ret.in.families[1])) # NULL)
    => /\ Sel.family = vlc_dictionary_value_for_key(ret.pre.family_map,
                                                    ToLower(ret.in.families[1]))
       /\ ~Sel.defaulted

\* The family specification the request reads, and whether it has no name
SpecOf(p_style) == IF "MONOSPACED" \in p_style.i_style_flags
                   THEN p_style.psz_monofontname ELSE p_style.psz_fontname

NoName(psz_spec) == \/ psz_spec = NullStr
                    \/ \A i \in 1..Len(psz_spec) : psz_spec[i] \in {",", " "}

\* C17: a request whose family specification is absent, empty or made of
\* separators and blanks returns no face, whatever the style and the
\* codepoint (0 included), and does nothing else: no tier is consulted, the
\* platform is not asked for a family, nothing is scored, probed or opened,
\* and the registry and the face cache are as before.
C17_EmptySpecNoFace ==
    (ret.op = "SelectAndLoadFace" /\ NoName(SpecOf(ret.in.style))) =>
        /\ ret.in.families = <<>>
        /\ ret.out.face = NULL
        /\ ret.out.sel = NoSel
        /\ ret.log = <<>>
        /\ Prog = ret.pre

\* A bold italic request without a codepoint, with a default family that
\* has a variant, and a specification of separators only
C17_Witness ==
    /\ ret.op = "SelectAndLoadFace"
    /\ ret.in.style.psz_fontname = <<",", " ", ",">>
    /\ ret.in.style.i_style_flags = {"BOLD", "ITALIC"}
    /\ ret.in.codepoint = 0
    /\ ret.out.face = NULL
    /\ \E p \in DictValues(family_map) :
          fams[p].psz_name = ToLower(DEFAULT_FAMILY) /\ fams[p].p_fonts # NULL

\* The monospace name is the one read when the style asks for it
C17_WitnessMonospace ==
    /\ ret.op = "SelectAndLoadFace"
    /\ "MONOSPACED" \in ret.in.style.i_style_flags
    /\ ret.in.style.psz_monofontname = NullStr
    /\ ret.in.style.psz_fontname = NameA
    /\ ret.in.codepoint = CP
    /\ ret.out.face = NULL

\* C7: with a codepoint and no tier having a match the resolution returns
\* none: no default family is substituted, no variant is scored, no face.
C7_AllTiersFail ==
    (IsSelect /\ ret.in.codepoint # 0 /\ ExpectedTier = 0) =>
        /\ Sel.fontfile = NullStr
        /\ Sel.family = NULL /\ Sel.font = NULL
        /\ ~Sel.defaulted
        /\ Asked(ret.log, "GetBestFont") = <<>>
        /\ ret.out.face = NULL
        /\ face_map = ret.pre.face_map \/ Len(face_map) > Len(ret.pre.face_map)

\* All four tiers had candidates and none covered the codepoint
C7_Witness ==
    /\ IsSelect /\ ret.in.codepoint # 0 /\ ExpectedTier = 0
    /\ TiersConsulted = {1, 2, 3, 4}
    /\ Forest(ret.pre, FB_LIST_ATTACHMENTS) # <<>>
    /\ Forest(ret.pre, FB_LIST_DEFAULT) # <<>>
    /\ ret.out.face = NULL /\ Sel.fontfile = NullStr

\* get_family does not know the name (StaticMap_GetFamily knows the
\* registered names and the two default names)
Unknown(P, psz_name) ==
    /\ vlc_dictionary_value_for_key(P.family_map, ToLower(psz_name)) = NULL
    /\ ~StrCaseEq(psz_name, DEFAULT_FAMILY)
    /\ ~StrCaseEq(psz_name, DEFAULT_MONOSPACE_FAMILY)

\* C8: a style-only request naming only unknown families returns the source
\* and index of a variant of the default family.
C8_UnknownFallsToDefault ==
    (IsSelect /\ ret.in.codepoint = 0
     /\ \A i \in 1..Len(ret.in.families) : Unknown(ret.pre, ret.in.families[i]))
    => /\ Sel.family # NULL
       /\ Sel.family = vlc_dictionary_value_for_key(family_map, ToLower(DEFAULT_FAMILY))
       /\ Sel.font \in SeqSet(FontChain(fonts, fams[Sel.family].p_fonts))
       /\ Sel.fontfile = fonts[Sel.font].psz_fontfile
       /\ Sel.idx = fonts[Sel.font].i_index
       /\ Sel.fontfile # NullStr

C8_Witness ==
    /\ IsSelect /\ ret.in.codepoint = 0
    /\ ret.in.families = <<<<"c">>>>
    /\ Sel.defaulted
    /\ Sel.fontfile = FileH
    /\ ret.out.face # NULL

\* C9 (as claimed): an attachment family of the first requested name with
\* some variant, at any position, that has the glyph is selected by tier 1.
C9_AnyVariantMatches ==
    (IsSelect /\ ret.in.codepoint # 0
     /\ \E e \in SeqSet(Forest(ret.pre, FB_LIST_ATTACHMENTS)) :
           /\ StrCaseEq(ret.pre.fams[e].psz_name, ret.in.families[1])
           /\ \E f \in SeqSet(FontChain(ret.pre.fonts, ret.pre.fams[e].p_fonts)) :
                 FontHasGlyph(ret.pre, ret.in.ft, f, ret.in.codepoint))
    => /\ Sel.tier = 1
       /\ Sel.family \in SeqSet(Forest(ret.pre, FB_LIST_ATTACHMENTS))
       /\ StrCaseEq(fams[Sel.family].psz_name, ret.in.families[1])

\* The earliest requested name with a tier 1 match
FirstTier1 ==
    Least({i \in 1..Len(ret.in.families) :
              Tier1Name(ret.pre, ret.in.ft, ret.in.families[i], ret.in.codepoint)})

\* C9 (amended): for the earliest requested name with a tier 1 match, the
\* first attachment family of that name (case-insensitively) whose first
\* variant has the glyph is selected by tier 1; a family tier 1 takes from
\* the attachments has the glyph in its first variant.
C9_FirstVariantMatches ==
    (IsSelect /\ ret.in.codepoint # 0) =>
        /\ (ExpectedTier = 1
            /\ AttMatch(ret.pre, ret.in.ft, ret.in.families[FirstTier1],
                        ret.in.codepoint) # NULL)
           => /\ Sel.tier = 1
              /\ Sel.family = AttMatch(ret.pre, ret.in.ft,
                                       ret.in.families[FirstTier1], ret.in.codepoint)
        /\ (Sel.tier = 1
            /\ Sel.family \in SeqSet(Forest(ret.pre, FB_LIST_ATTACHMENTS)))
           => Covers(fams[Sel.family].p_fonts, ret.in.codepoint)

\* "A" is requested, the attachment family "a" covers with its first variant
C9_Witness ==
    /\ IsSelect /\ ret.in.codepoint # 0
    /\ ret.in.families[1] = <<"A">>
    /\ Sel.tier = 1
    /\ Sel.family \in SeqSet(Forest(ret.pre, FB_LIST_ATTACHMENTS))
    /\ fams[Sel.family].psz_name = <<"a">>
    /\ Sel.family # vlc_dictionary_value_for_key(family_map, <<"a">>)

\* The earliest requested name whose system fallback list has a covering entry
FirstTier3 ==
    Least({i \in 1..Len(ret.in.families) :
              Tier3Name(ret.pre, ret.in.ft, ret.in.families[i], ret.in.codepoint)})

\* C10: tier 1 settles on the earliest requested name that has a match, the
\* attachments before the registry for each name, and asks the registry for
\* no later name; tier 3 asks for the fallbacks in the listed order and
\* stops at the first name whose list has a covering family.
C10_NameOrder ==
    (IsSelect /\ ret.in.codepoint # 0) =>
        /\ ExpectedTier = 1 =>
              LET i == FirstTier1
                  a == AttMatch(ret.pre, ret.in.ft, ret.in.families[i], ret.in.codepoint)
              IN /\ Sel.tier = 1
                 /\ StrCaseEq(fams[Sel.family].psz_name, ret.in.families[i])
                 /\ a # NULL => /\ Sel.family = a
                                /\ Asked(ret.log, "get_family")
                                     = SubSeq(ret.in.families, 1, i - 1)
                 /\ a = NULL => /\ Sel.family = vlc_dictionary_value_for_key(
                                                  family_map, ToLower(ret.in.families[i]))
                                /\ Asked(ret.log, "get_family")
                                     = SubSeq(ret.in.families, 1, i)
        /\ Sel.tier = 3 =>
              /\ Sel.family = FirstCovering(ret.pre, ret.in.ft,
                                  Forest(ret.pre, ToLower(ret.in.families[FirstTier3])),
                                  ret.in.codepoint)
              /\ Asked(ret.log, "get_fallbacks")
                   = SubSeq(ret.in.families, 1, FirstTier3)

\* "b, a": the registry match of b beats the attachment match of a
C10_Witness ==
    /\ IsSelect /\ ret.in.codepoint # 0
    /\ ret.in.families = <<NameB, NameA>>
    /\ AttMatch(ret.pre, ret.in.ft, NameA, ret.in.codepoint) # NULL
    /\ Sel.tier = 1
    /\ Sel.family = vlc_dictionary_value_for_key(family_map, NameB)
    /\ Asked(ret.log, "get_family") = <<NameB>>

\* Tier 3 stopped at the first name although the second had a list too
C10_WitnessTier3 ==
    /\ IsSelect /\ ret.in.codepoint # 0
    /\ Sel.tier = 3
    /\ Len(ret.in.families) = 2
    /\ Forest(ret.pre, ToLower(ret.in.families[2])) # <<>>
    /\ Asked(ret.log, "get_fallbacks") = <<ret.in.families[1]>>

(***************************************************************************)
(* The fallback search on its own, over the lists the platform registered. *)
(***************************************************************************)
\* (list identifier, codepoint, font engine) of a search
Searches == ({FB_LIST_ATTACHMENTS, FB_LIST_DEFAULT, NameA} \X Codepoints \X {AllOk})
            \cup {<<FB_LIST_ATTACHMENTS, CP, FileF :> "open_err">>}

DoSearchFallbacks ==
    /\ phase = "ready"
    /\ \E sr \in Searches :
          \E p_fallbacks \in {vlc_dictionary_value_for_key(fallback_map, sr[1])} :
          \E r \in {SearchFallbacks(Cur(sr[3], "none"), p_fallbacks, sr[2])} :
             Commit(r.S, "SearchFallbacks",
                    [key |-> sr[1], fallbacks |-> p_fallbacks, codepoint |-> sr[2],
                     ft |-> sr[3]],
                    [family |-> r.family])
    /\ UNCHANGED phase

NextSearch == DoPopulate \/ DoSearchFallbacks

SpecSearch == Init /\ [][NextSearch]_vars

SearchedForest == FamChain(ret.pre.fams, ret.in.fallbacks)

\* The position of a pointer in a chain, 0 when it is not in it
PosIn(chain, p) == IF \E i \in 1..Len(chain) : chain[i] = p
                   THEN CHOOSE i \in 1..Len(chain) : chain[i] = p ELSE 0

\* The names of the entries of the chain that have no variants yet
RECURSIVE NamesOfEmpty(_, _)
NamesOfEmpty(P, chain) ==
    IF chain = <<>> THEN <<>>
    ELSE (IF P.fams[Head(chain)].p_fonts = NULL
          THEN <<P.fams[Head(chain)].psz_name>> ELSE <<>>)
         \o NamesOfEmpty(P, Tail(chain))

\* C4: SearchFallbacks returns the first entry in forest order whose first
\* variant (populated on demand) has the glyph, or none, and it probes the
\* entries up to that one only: no get_family call, no GetFace and no change
\* for an entry after it.
C4_FirstCoveringOnly ==
    ret.op = "SearchFallbacks" =>
        /\ ret.out.family = FirstCovering(ret.pre, ret.in.ft, SearchedForest,
                                          ret.in.codepoint)
        /\ Asked(ret.log, "probe")
             = IF ret.out.family = NULL THEN SearchedForest
               ELSE SubSeq(SearchedForest, 1, PosIn(SearchedForest, ret.out.family))
        /\ ret.out.family # NULL =>
              \A i \in (PosIn(SearchedForest, ret.out.family) + 1)..Len(SearchedForest) :
                 fams[SearchedForest[i]] = ret.pre.fams[SearchedForest[i]]
        /\ Asked(ret.log, "get_family")
             = NamesOfEmpty(ret.pre, Asked(ret.log, "probe"))
        /\ \A f \in SeqSet(Asked(ret.log, "GetFace")) :
              \E e \in SeqSet(Asked(ret.log, "probe")) : fams[e].p_fonts = f
        /\ \A o \in SeqSet(Asked(ret.log, "open")) :
              \E e \in SeqSet(Asked(ret.log, "probe")) :
                 /\ fams[e].p_fonts # NULL
                 /\ fonts[fams[e].p_fonts].psz_fontfile = o

\* The first entry covers, the entry after it would have been populated
C4_Witness ==
    /\ ret.op = "SearchFallbacks"
    /\ Len(SearchedForest) = 2
    /\ ret.out.family = SearchedForest[1]
    /\ ret.pre.fams[SearchedForest[2]].p_fonts = NULL
    /\ EntryCovers(ret.pre, ret.in.ft, SearchedForest[2], ret.in.codepoint)
    /\ Asked(ret.log, "probe") = <<SearchedForest[1]>>
    /\ fams[SearchedForest[2]].p_fonts = NULL

(***************************************************************************)
(* The family-spec parser on its own: a specification string is given, the *)
(* parser splits it.                                                       *)
(***************************************************************************)
MaxSpecLen == 5

\* The characters of the specifications: two letters, the separator, the two
\* blanks and the quote
SpecChars == {"a", "b", ",", " ", "\t", "\""}

\* The specifications: the absent one and every string up to MaxSpecLen
SpecStrings == {NullStr} \cup UNION {[1..n -> SpecChars] : n \in 0..MaxSpecLen}

InitParse ==
    /\ fonts = <<>> /\ fams = <<>> /\ p_families = NULL
    /\ family_map = <<>> /\ fallback_map = <<>> /\ face_map = <<>>
    /\ i_fallback_counter = 0 /\ ft_faces = <<>> /\ issued = {}
    /\ i_scale = 100 /\ psz_fontfile = NullStr /\ pf_get_fallbacks = FALSE
    /\ phase = "new"
    /\ \E psz_spec \in SpecStrings :
          ret = [NoCall EXCEPT !.op = "spec", !.in = [spec |-> psz_spec]]

DoSplitIntoSingleFamily ==
    /\ phase = "new"
    /\ ret' = [ret EXCEPT !.op = "SplitIntoSingleFamily",
                          !.out = [families |-> SplitIntoSingleFamily(ret.in.spec)]]
    /\ phase' = "run"
    /\ UNCHANGED <<fonts, fams, p_families, family_map, fallback_map, face_map,
                   i_fallback_counter, i_scale, psz_fontfile, pf_get_fallbacks,
                   ft_faces, issued>>

NextParse == DoSplitIntoSingleFamily

SpecParse == InitParse /\ [][NextParse]_vars

IsSplit == ret.op = "SplitIntoSingleFamily"

\* The k-th smallest element of a set of numbers
Kth(I, k) == CHOOSE x \in I : Cardinality({y \in I : y < x}) = k - 1

\* The positions that bound the tokens: the commas and the two ends
TokenBounds(s) == {0, Len(s) + 1} \cup {i \in 1..Len(s) : s[i] = ","}

\* The comma-separated tokens of a string, in order, the empty ones included
TokensOf(s) ==
    [k \in 1..(Cardinality(TokenBounds(s)) - 1) |->
        SubSeq(s, Kth(TokenBounds(s), k) + 1, Kth(TokenBounds(s), k + 1) - 1)]

\* The token without its leading and trailing spaces and tabs
Trimmed(t) ==
    LET solid == {i \in 1..Len(t) : t[i] # " " /\ t[i] # "\t"}
    IN IF solid = {} THEN <<>>
       ELSE SubSeq(t, Kth(solid, 1), Kth(solid, Cardinality(solid)))

\* Wrapped in a pair of double quotes: two quote characters, one at each end
Wrapped(t) == Len(t) >= 2 /\ t[1] = "\"" /\ t[Len(t)] = "\""

Unquoted(t) == IF Wrapped(t) THEN SubSeq(t, 2, Len(t) - 1) ELSE t

NotEmpty(t) == t # <<>>

\* The names a specification stands for
NamesOf(psz_spec) ==
    IF psz_spec = NullStr THEN <<>>
    ELSE SelectSeq([k \in DOMAIN TokensOf(psz_spec) |->
                       Unquoted(Trimmed(TokensOf(psz_spec)[k]))], NotEmpty)

\* A token that is, once trimmed, one double-quote character
LoneQuote(psz_spec) ==
    /\ psz_spec # NullStr
    /\ \E k \in DOMAIN TokensOf(psz_spec) : Trimmed(TokensOf(psz_spec)[k]) = <<"\"">>

C13_WitnessOrder ==
    /\ IsSplit
    /\ ret.in.spec = <<"b", ",", " ", ",", "a">>
    /\ ret.out.families = <<<<"b">>, <<"a">>>>

\* C14 (as claimed): a trimmed token with a quote that is not wrapped in a
\* matching pair of double quotes, the token of one double-quote character
\* included, is emitted with its quote characters unchanged.
C14_UnmatchedQuotesLiteral ==
    IsSplit =>
        \A k \in DOMAIN TokensOf(ret.in.spec) :
           LET t == Trimmed(TokensOf(ret.in.spec)[k])
           IN (ret.in.spec # NullStr /\ t # <<>> /\ ~Wrapped(t)
               /\ \E i \in 1..Len(t) : t[i] = "\"")
              => \E i \in 1..Len(ret.out.families) : ret.out.families[i] = t

\* The same for the tokens of two characters or more: a quote at one end only
\* stays in the name
C14_OneEndQuoteLiteral ==
    IsSplit =>
        \A k \in DOMAIN TokensOf(ret.in.spec) :
           LET t == Trimmed(TokensOf(ret.in.spec)[k])
           IN (ret.in.spec # NullStr /\ Len(t) >= 2 /\ ~Wrapped(t)
               /\ \E i \in 1..Len(t) : t[i] = "\"")
              => \E i \in 1..Len(ret.out.families) : ret.out.families[i] = t

\* The token of one double-quote character is dropped
C14_LoneQuoteDropped ==
    /\ IsSplit
    /\ ret.in.spec = <<"a", ",", "\"">>
    /\ ret.out.families = <<<<"a">>>>

(***************************************************************************)
(* The registry on its own: NewFamily called with any target list,         *)
(* dictionary and key.                                                     *)
(***************************************************************************)
MaxFamilies == 3

\* (name, target list, dictionary, key) of the calls; the absent name makes
\* a numbered fallback family, the absent key stands for the name
RegistryCalls ==
    {<<<<"A">>, "p_families", "family_map", <<"A">>>>,
     <<NameA, "none", "family_map", NullStr>>,
     <<<<"A">>, "p_families", "none", NullStr>>,
     <<<<"A">>, "none", "fallback_map", NameB>>,
     <<NameB, "p_families", "fallback_map", NameB>>,
     <<NullStr, "none", "fallback_map", NameB>>,
     <<NullStr, "p_families", "family_map", NullStr>>}

\* The p_next chain from p ends within n steps
RECURSIVE Ends(_, _, _)
Ends(F, p, n) == IF p = NULL THEN TRUE
                 ELSE IF n = 0 THEN FALSE
                 ELSE Ends(F, F[p].p_next, n - 1)

\* Every chain from a list head or a dictionary value is finite
Acyclic(P) ==
    \A p \in {P.p_families} \cup DictValues(P.family_map) \cup DictValues(P.fallback_map) :
       Ends(P.fams, p, Len(P.fams))

\* A call that walks a chain with a cycle in it does not return (the loop of
\* AppendFamily has no end): no call is made once a chain is cyclic
DoNewFamily ==
    /\ Len(fams) < MaxFamilies
    /\ Acyclic(Prog)
    /\ \E c \in RegistryCalls :
          \E n \in {NewFamily(Cur(AllOk, "none"), c[1], c[2], c[3], c[4])} :
             Commit(n.S, "NewFamily",
                    [family |-> c[1], pp_list |-> c[2], p_dict |-> c[3], key |-> c[4]],
                    [family |-> n.family])
    /\ UNCHANGED phase

NextRegistry == DoNewFamily

SpecRegistry == Init /\ [][NextRegistry]_vars

\* The key the call files the family under
KeyUsed == IF ret.in.key = NullStr THEN fams[ret.out.family].psz_name
           ELSE ToLower(ret.in.key)

UniqueKeys(p_dict) ==
    \A i \in 1..Len(p_dict), j \in 1..Len(p_dict) : p_dict[i][1] = p_dict[j][1] => i = j

\* C16: a dictionary never holds two entries of one key; a NewFamily for a
\* key that has a family leaves the dictionary as it was, so the lookup of the
\* key gives the same family before and after; a key without a family gets
\* the new one, and the other keys keep theirs.
C16_RegistrationIdempotent ==
    /\ UniqueKeys(family_map) /\ UniqueKeys(fallback_map)
    /\ (ret.op = "NewFamily" /\ ret.in.p_dict # "none" /\ ret.out.family # NULL) =>
          LET before == Dict(ret.pre, ret.in.p_dict)
              after  == Dict(Prog, ret.in.p_dict)
              p_root == vlc_dictionary_value_for_key(before, KeyUsed)
          IN /\ p_root # NULL =>
                   /\ after = before
                   /\ vlc_dictionary_value_for_key(after, KeyUsed) = p_root
             /\ p_root = NULL =>
                   vlc_dictionary_value_for_key(after, KeyUsed) = ret.out.family
             /\ \A k \in DictKeys(before) \ {KeyUsed} :
                   vlc_dictionary_value_for_key(after, k)
                     = vlc_dictionary_value_for_key(before, k)

\* The name "a" is in the name cache; it is registered again as "A" and the
\* lookup still gives the first family, the second one is chained behind it
C16_Witness ==
    /\ ret.op = "NewFamily" /\ ret.in.p_dict = "family_map"
    /\ ret.in.family = <<"A">>
    /\ ret.out.family # NULL
    /\ vlc_dictionary_value_for_key(ret.pre.family_map, NameA) # NULL
    /\ vlc_dictionary_value_for_key(family_map, NameA)
         = vlc_dictionary_value_for_key(ret.pre.family_map, NameA)
    /\ vlc_dictionary_value_for_key(family_map, NameA) # ret.out.family
    /\ Len(family_map) = 1
    /\ fams[ret.out.family].psz_name = NameA

\* C18 (as claimed): after any sequence of NewFamily calls every p_next chain
\* from a list head or a dictionary value is finite: no family is its own
\* successor or part of a cycle.
C18_ForestAcyclic == Acyclic(Prog)

\* Away from the case of a key whose root is in the target list, the chains
\* stay finite
C18_AcyclicElsewhere ==
    (ret.op = "NewFamily"
     /\ ~(ret.in.pp_list # "none" /\ ret.in.p_dict # "none"
          /\ vlc_dictionary_value_for_key(Dict(ret.pre, ret.in.p_dict), KeyUsed) # NULL))
    => Acyclic(Prog)

\* The events of the search between the probe of the entry and the next probe
ProbeAt(p_entry) == CHOOSE k \in 1..Len(ret.log) : ret.log[k] = <<"probe", p_entry>>

EventsOf(p_entry) ==
    LET k    == ProbeAt(p_entry)
        ends == {j \in (k + 1)..Len(ret.log) : ret.log[j][1] = "probe"}
        last == IF ends = {} THEN Len(ret.log)
                ELSE (CHOOSE j \in ends : \A i \in ends : j <= i) - 1
    IN SubSeq(ret.log, k + 1, last)

\* C20: an entry of the searched forest that has no variants is given, before
\* it is tested, the variant list of the family get_family resolves its name
\* to; when there is no such family, or it has no variants, the entry stays
\* empty, is not tested and not returned, and the next entry is probed; an
\* entry that has variants is tested as it is, without a get_family call, and
\* is left as it was; entries the search did not reach are left as they were.
C20_LazyPopulation ==
    ret.op = "SearchFallbacks" =>
       \A i \in 1..Len(SearchedForest) :
          LET e      == SearchedForest[i]
              probed == e \in SeqSet(Asked(ret.log, "probe"))
              t      == vlc_dictionary_value_for_key(family_map,
                                                     ToLower(ret.pre.fams[e].psz_name))
          IN /\ ~probed => fams[e] = ret.pre.fams[e]
             /\ (probed /\ ret.pre.fams[e].p_fonts # NULL) =>
                   /\ fams[e] = ret.pre.fams[e]
                   /\ Asked(EventsOf(e), "get_family") = <<>>
                   /\ Head(EventsOf(e)) = <<"GetFace", fams[e].p_fonts>>
             /\ (probed /\ ret.pre.fams[e].p_fonts = NULL) =>
                   /\ fams[e] = [ret.pre.fams[e] EXCEPT
                                   !.p_fonts = IF t = NULL THEN NULL ELSE fams[t].p_fonts]
                   /\ Head(EventsOf(e)) = <<"get_family", ret.pre.fams[e].psz_name>>
                   /\ fams[e].p_fonts # NULL =>
                         /\ Asked(EventsOf(e), "GetFace") = <<fams[e].p_fonts>>
                         /\ \E j \in 2..Len(EventsOf(e)) :
                               EventsOf(e)[j] = <<"GetFace", fams[e].p_fonts>>
                   /\ fams[e].p_fonts = NULL =>
                         /\ Asked(EventsOf(e), "GetFace") = <<>>
                         /\ ret.out.family # e
                         /\ i < Len(SearchedForest) =>
                               SearchedForest[i + 1] \in SeqSet(Asked(ret.log, "probe"))

\* An empty entry is populated from the registered family of its name and
\* returned, behind an entry that get_family cannot resolve and that is
\* skipped and left empty
C20_Witness ==
    /\ ret.op = "SearchFallbacks"
    /\ Len(SearchedForest) = 2
    /\ ret.pre.fams[SearchedForest[1]].p_fonts = NULL
    /\ fams[SearchedForest[1]].p_fonts = NULL
    /\ ret.pre.fams[SearchedForest[2]].p_fonts = NULL
    /\ fams[SearchedForest[2]].p_fonts # NULL
    /\ ret.out.family = SearchedForest[2]

\* An entry with variants is tested as it is
C20_WitnessPopulated ==
    /\ ret.op = "SearchFallbacks"
    /\ ret.out.family # NULL
    /\ ret.pre.fams[ret.out.family].p_fonts # NULL
    /\ Len(ret.log) > 1

\* C19: a resolution with a codepoint that returns a source and index has
\* settled a family in one of the four tiers, not the default family put in
\* its place; the pair is that of a variant of the settled family, and the
\* face opened for that variant has the glyph of the codepoint; so has the
\* face of the family's first variant, and so has the face the request
\* returns.
C19_ReturnedVariantCovers ==
    (IsSelect /\ ret.in.codepoint # 0 /\ Sel.fontfile # NullStr) =>
        /\ Sel.tier \in 1..4 /\ Sel.tier = ExpectedTier
        /\ Sel.family # NULL /\ ~Sel.defaulted
        /\ Sel.font \in SeqSet(FontChain(fonts, fams[Sel.family].p_fonts))
        /\ Sel.fontfile = fonts[Sel.font].psz_fontfile
        /\ Sel.idx = fonts[Sel.font].i_index
        /\ fonts[Sel.font].p_face # NULL
        /\ FT_Get_Char_Index(Prog, fonts[Sel.font].p_face, ret.in.codepoint)
        /\ fonts[fams[Sel.family].p_fonts].p_face # NULL
        /\ FT_Get_Char_Index(Prog, fonts[fams[Sel.family].p_fonts].p_face,
                             ret.in.codepoint)
        /\ ret.out.face # NULL =>
              /\ ft_faces[ret.out.face].src = Sel.fontfile
              /\ ft_faces[ret.out.face].idx = Sel.idx
              /\ FT_Get_Char_Index(Prog, ret.out.face, ret.in.codepoint)

\* A bold request; the settled family has a plain first variant with the
\* glyph and a bold variant without it: the plain one is returned
C19_Witness ==
    /\ IsSelect /\ ret.in.codepoint # 0
    /\ "BOLD" \in ret.in.style.i_style_flags
    /\ Sel.font # NULL
    /\ Sel.font = fams[Sel.family].p_fonts
    /\ ~fonts[Sel.font].b_bold
    /\ \E f \in SeqSet(FontChain(fonts, fams[Sel.family].p_fonts)) :
          /\ fonts[f].b_bold
          /\ ~FontHasGlyph(ret.pre, ret.in.ft, f, ret.in.codepoint)
    /\ ret.out.face # NULL

\* The default family is registered with a variant and is not the settled one
C19_WitnessNoDefault ==
    /\ IsSelect /\ ret.in.codepoint # 0
    /\ Sel.fontfile # NullStr
    /\ \E p \in DictValues(family_map) :
          /\ fams[p].psz_name = ToLower(DEFAULT_FAMILY)
          /\ fams[p].p_fonts # NULL
          /\ p # Sel.family
          /\ fams[p].p_fonts # fams[Sel.family].p_fonts

(***************************************************************************)
(* The registry with allocations that fail: after the platform registered *)
(* its families, NewFamily and InitDefaultList are called when the         *)
(* allocation of the node, of the name or of the key fails, at once or     *)
(* after some calls of NewFamily have succeeded, or when none fails.       *)
(***************************************************************************)
AllocFailures == {"family", "name", "lc"}

\* The calls of NewFamily that succeed before the failure
MaxAfter == 2

\* The names InitDefaultList is given
DefaultLists == {<<NameA, NameB, DEFAULT_FAMILY>>}

\* What the platform registered before
AllocScripts == {<<>>, FamilyScript(<<"A">>, <<FileF>>),
                 FamilyScript(<<"A">>, <<FileF>>) \o FamilyScript(NameB, <<FileG>>)}

\* (name, target list, dictionary, key) of the NewFamily calls
AllocCalls == {<<<<"A">>, "p_families", "family_map", <<"A">>>>,
               <<NullStr, "none", "fallback_map", NameB>>,
               <<<<>>, "p_families", "family_map", NullStr>>}

InitAlloc ==
    /\ InitSys
    /\ i_scale = 100
    /\ psz_fontfile = NullStr
    /\ pf_get_fallbacks = FALSE

DoRegister ==
    /\ phase = "new"
    /\ \E script \in AllocScripts :
          Commit(ApplyScript(Cur(AllOk, "none"), script), "Populate",
                 [script |-> script], [ok |-> TRUE])
    /\ phase' = "ready"

DoNewFamilyOom ==
    /\ phase = "ready"
    /\ Len(fams) < MaxFamilies
    /\ i_fallback_counter < MaxFamilies
    /\ Acyclic(Prog)
    /\ \E c \in AllocCalls, k \in {"none"} \cup AllocFailures :
          \E n \in {NewFamily(Cur(AllOk, k), c[1], c[2], c[3], c[4])} :
             Commit(n.S, "NewFamily",
                    [family |-> c[1], pp_list |-> c[2], p_dict |-> c[3], key |-> c[4],
                     oom |-> k],
                    [family |-> n.family])
    /\ UNCHANGED phase

\* The platform's set-up of the default list: made once
DoInitDefaultList ==
    /\ phase = "ready"
    /\ Len(fams) < MaxFamilies
    /\ Acyclic(Prog)
    /\ vlc_dictionary_value_for_key(fallback_map, FB_LIST_DEFAULT) = NULL
    /\ \E names \in DefaultLists, k \in {"none"} \cup AllocFailures, after \in 0..MaxAfter :
          \E r \in {InitDefaultList([Cur(AllOk, k) EXCEPT !.oom_after = after], names)} :
             Commit(r.S, "InitDefaultList",
                    [names |-> names, oom |-> k, after |-> after],
                    [family |-> r.family])
    /\ UNCHANGED phase

NextAlloc == DoRegister \/ DoNewFamilyOom \/ DoInitDefaultList

SpecAlloc == InitAlloc /\ [][NextAlloc]_vars

\* The nodes on the p_next chain from p, walked for n steps at most
RECURSIVE ChainSet(_, _, _)
ChainSet(F, p, n) == IF p = NULL \/ n = 0 THEN {}
                     ELSE {p} \cup ChainSet(F, F[p].p_next, n - 1)

\* The nodes a list head or a dictionary leads to
Reachable(P) ==
    UNION {ChainSet(P.fams, p, Len(P.fams)) :
             p \in {P.p_families} \cup DictValues(P.family_map)
                     \cup DictValues(P.fallback_map)}

\* The nodes the last call made
Created == (Len(ret.pre.fams) + 1)..Len(fams)

\* The names of the list, lower-cased, that get_family has a family for
RECURSIVE Resolved(_)
Resolved(names) ==
    IF names = <<>> THEN <<>>
    ELSE (IF vlc_dictionary_value_for_key(family_map, ToLower(Head(names))) # NULL
          THEN <<ToLower(Head(names))>> ELSE <<>>) \o Resolved(Tail(names))

\* C21: a NewFamily that returns none has left the nodes, the target list
\* and both dictionaries as they were, and it returns none whenever one of
\* its allocations fails; an InitDefaultList that returns none has stored
\* nothing in the fallback map, and every node made during the call is either
\* released and not reachable from a list or a dictionary, or is a family
\* that get_family registered under its name; no reachable node is released;
\* a default list that is stored has an entry for every name of the list
\* that get_family has a family for, so it is never a part of the list.
C21_NoPartialConstruction ==
    /\ \A p \in Reachable(Prog) : ~fams[p].freed
    /\ ret.op = "NewFamily" => (ret.out.family = NULL <=> ret.in.oom # "none")
    /\ (ret.op = "NewFamily" /\ ret.out.family = NULL) =>
          /\ fams = ret.pre.fams
          /\ p_families = ret.pre.p_families
          /\ family_map = ret.pre.family_map
          /\ fallback_map = ret.pre.fallback_map
    /\ (ret.op = "InitDefaultList" /\ ret.out.family = NULL) =>
          /\ fallback_map = ret.pre.fallback_map
          /\ \A p \in 1..Len(ret.pre.fams) : fams[p].freed = ret.pre.fams[p].freed
          /\ \A p \in Created :
                \/ fams[p].freed /\ p \notin Reachable(Prog)
                \/ /\ ~fams[p].freed
                   /\ vlc_dictionary_value_for_key(family_map, fams[p].psz_name) = p
    /\ (ret.op = "InitDefaultList" /\ ret.out.family # NULL) =>
          /\ vlc_dictionary_value_for_key(fallback_map, FB_LIST_DEFAULT) = ret.out.family
          /\ [i \in 1..Len(FamChain(fams, ret.out.family)) |->
                 fams[FamChain(fams, ret.out.family)[i]].psz_name]
               = Resolved(ret.in.names)

\* InitDefaultList fails at its last entry: the entry it had made is
\* released, the default family that get_family registered stays
C21_Witness ==
    /\ ret.op = "InitDefaultList"
    /\ ret.out.family = NULL
    /\ ret.in.oom \in AllocFailures
    /\ Cardinality({p \in Created : fams[p].freed}) = 1
    /\ \E p \in Created : ~fams[p].freed /\ fams[p].psz_name = ToLower(DEFAULT_FAMILY)
    /\ p_families # NULL

\* NewFamily fails on the copy of the key, with a target list and a
\* dictionary that are not empty
C21_WitnessNewFamily ==
    /\ ret.op = "NewFamily"
    /\ ret.in.oom = "lc"
    /\ ret.in.pp_list = "p_families" /\ ret.in.p_dict = "family_map"
    /\ ret.out.family = NULL
    /\ p_families # NULL /\ family_map # <<>>

\* The name is a synthesized placeholder: FB_NAME, a dash and digits
IsPlaceholder(psz_name) ==
    /\ Len(psz_name) > Len(FB_NAME) + 1
    /\ SubSeq(psz_name, 1, Len(FB_NAME) + 1) = FB_NAME \o <<"-">>

\* C22: every family has a name that is not absent and not empty and is in
\* lower case; a NewFamily given a non-empty name stores it lower-cased and
\* leaves the counter alone; given an absent or empty name it stores
\* FB_NAME-NNNN with the value of the counter and adds one to the counter,
\* which never decreases; no two families made with a placeholder have the
\* same name.
C22_NameNeverEmpty ==
    /\ \A p \in 1..Len(fams) :
          /\ fams[p].psz_name # NullStr /\ fams[p].psz_name # <<>>
          /\ ToLower(fams[p].psz_name) = fams[p].psz_name
    /\ \A p \in 1..Len(fams), q \in 1..Len(fams) :
          (IsPlaceholder(fams[p].psz_name) /\ fams[p].psz_name = fams[q].psz_name)
            => p = q
    /\ ret.op \in {"NewFamily", "InitDefaultList"} =>
          i_fallback_counter >= ret.pre.i_fallback_counter
    /\ (ret.op = "NewFamily" /\ ret.out.family # NULL) =>
          IF ret.in.family # NullStr /\ ret.in.family # <<>>
          THEN /\ fams[ret.out.family].psz_name = ToLower(ret.in.family)
               /\ i_fallback_counter = ret.pre.i_fallback_counter
          ELSE /\ fams[ret.out.family].psz_name
                    = FB_NAME \o <<"-">> \o Pad4(ret.pre.i_fallback_counter)
               /\ i_fallback_counter = ret.pre.i_fallback_counter + 1

\* Two families made without a name, one with an absent and one with an
\* empty name, and a failed call between them that used up a number
C22_Witness ==
    /\ ret.op = "NewFamily" /\ ret.out.family # NULL
    /\ ret.in.family = <<>>
    /\ Cardinality({p \in 1..Len(fams) : IsPlaceholder(fams[p].psz_name)}) = 2
    /\ i_fallback_counter = 3

\* A name given in upper case is stored in lower case
C22_WitnessNamed ==
    /\ ret.op = "NewFamily" /\ ret.out.family # NULL
    /\ ret.in.family = <<"A">>
    /\ fams[ret.out.family].psz_name = NameA

====
